---- MODULE Spec2Model ----
(***************************************************************************)
(* The AI review-suggestion layer of magic-qr-generator: the rate-limited, *)
(* cached service (services/aiReviewServiceV2.ts) and its sibling variants.*)
(* Texts are sequences of one-character strings, so that the string        *)
(* operations of the code (trim, toLowerCase, split, replace, slice) are   *)
(* computed on the characters.                                             *)
(***************************************************************************)
EXTENDS Integers, Sequences, FiniteSets, TLC

\* ---------------------------------------------------------------- bounds
\* Number of clock advances in one behaviour.
MaxTicks == 2
\* Number of generateReviews invocations in one behaviour.
MaxCalls == 3
\* Number of generateReviews invocations suspended at their upstream await.
MaxPending == 2
\* fingerprints recorded in the deduplication caches on their own
MaxRecords == 22
\* The injected RateLimitConfig (constructor(config?: Partial<RateLimitConfig>)).
MaxRequestsPerMinute == 1
MaxRequestsPerHour == 2

\* ---------------------------------------------------- program constants
OneMinute == 60000
OneHour == 3600000
CacheDurationMs == 3600000
DefaultNumberOfReviews == 3
MinLineLen == 10
MaxLineLen == 500

\* ------------------------------------------------------------ characters
UpperCase == <<"A","B","C","D","E","F","G","H","I","J","K","L","M","N","O","P","Q","R","S","T","U","V","W","X","Y","Z">>
LowerCase == <<"a","b","c","d","e","f","g","h","i","j","k","l","m","n","o","p","q","r","s","t","u","v","w","x","y","z">>
Digits == <<"0","1","2","3","4","5","6","7","8","9">>

Range(s) == {s[i] : i \in DOMAIN s}

IsWhitespace(c) == c \in {" ", "\t", "\n", "\r"}
IsDigit(c) == c \in Range(Digits)
IsNewline(c) == c \in {"\n", "\r"}

\* String.prototype.slice(0, n) and Array.prototype.slice(0, n)
Take(s, n) == SubSeq(s, 1, IF n < Len(s) THEN n ELSE Len(s))

\* String.prototype.trim
RECURSIVE TrimStart(_)
TrimStart(s) == IF s # <<>> /\ IsWhitespace(Head(s)) THEN TrimStart(Tail(s)) ELSE s
RECURSIVE TrimEnd(_)
TrimEnd(s) == IF s # <<>> /\ IsWhitespace(s[Len(s)]) THEN TrimEnd(SubSeq(s, 1, Len(s) - 1)) ELSE s
Trim(s) == TrimEnd(TrimStart(s))

\* content.split(/[\n\r]+/): the pieces between runs of line breaks (an empty
\* piece at either end when the content starts or ends with a line break).
RECURSIVE SplitFrom(_, _, _)
SplitFrom(s, i, cur) ==
  IF i > Len(s) THEN <<cur>>
  ELSE IF IsNewline(s[i])
       THEN IF i > 1 /\ IsNewline(s[i - 1])
            THEN SplitFrom(s, i + 1, cur)
            ELSE <<cur>> \o SplitFrom(s, i + 1, <<>>)
       ELSE SplitFrom(s, i + 1, Append(cur, s[i]))
SplitLines(s) == SplitFrom(s, 1, <<>>)

\* line.replace(/^[\d\-\.\)\s]+/, '')
RECURSIVE StripListPrefix(_)
StripListPrefix(s) ==
  IF s # <<>> /\ (IsDigit(Head(s)) \/ IsWhitespace(Head(s)) \/ Head(s) \in {"-", ".", ")"})
  THEN StripListPrefix(Tail(s)) ELSE s

\* `${number}` for the small counts of the model
NumToStr(n) == IF n < 10 THEN <<Digits[n + 1]>> ELSE <<Digits[(n \div 10) + 1], Digits[(n % 10) + 1]>>

\* ------------------------------------------------------------------ data
\* An optional number is <<>> (undefined) or <<n>>; an optional tone likewise.
\* request.numberOfReviews || 3
OrDefault(opt, d) == IF opt = <<>> \/ opt[1] = 0 THEN d ELSE opt[1]

ToneProfessional == <<"p","r","o","f","e","s","s","i","o","n","a","l">>
\* request.tone || 'professional'
ToneOrDefault(opt) == IF opt = <<>> THEN ToneProfessional ELSE opt[1]

\* const FALLBACK_REVIEWS
FALLBACK_REVIEWS == <<
  <<"P","r","o","f","e","s","s","i","o","n","a","l"," ","s","e","r","v","i","c","e"," ","a","n","d"," ","g","e","n","u","i","n","e"," ","c","a","r","e","."," ","H","i","g","h","l","y"," ","s","a","t","i","s","f","i","e","d"," ","w","i","t","h"," ","t","h","e"," ","e","x","p","e","r","i","e","n","c","e","!">>,
  <<"E","x","c","e","l","l","e","n","t"," ","w","o","r","k"," ","o","n"," ","m","y"," ","i","n","q","u","i","r","y","."," ","F","a","i","r"," ","p","r","i","c","i","n","g"," ","a","n","d"," ","q","u","i","c","k"," ","r","e","s","p","o","n","s","e","."," ","W","o","u","l","d"," ","r","e","c","o","m","m","e","n","d",".">>,
  <<"O","u","t","s","t","a","n","d","i","n","g"," ","s","e","r","v","i","c","e","!"," ","F","i","x","e","d"," ","m","y"," ","i","s","s","u","e"," ","r","i","g","h","t"," ","t","h","e"," ","f","i","r","s","t"," ","t","i","m","e","."," ","T","h","a","n","k"," ","y","o","u","!">>,
  <<"G","r","e","a","t"," ","a","t","t","e","n","t","i","o","n"," ","t","o"," ","d","e","t","a","i","l","."," ","P","r","o","f","e","s","s","i","o","n","a","l"," ","t","e","a","m"," ","t","h","a","t"," ","t","r","u","l","y"," ","c","a","r","e","s"," ","a","b","o","u","t"," ","q","u","a","l","i","t","y",".">>,
  <<"E","x","c","e","p","t","i","o","n","a","l"," ","e","x","p","e","r","i","e","n","c","e"," ","f","r","o","m"," ","s","t","a","r","t"," ","t","o"," ","f","i","n","i","s","h","."," ","W","i","l","l"," ","d","e","f","i","n","i","t","e","l","y"," ","r","e","t","u","r","n","!">> >>

\* An element of a parsed JSON array: a string, or a value that is no string.
StrItem(s) == [isString |-> TRUE, s |-> s]
StrItems(ss) == [i \in DOMAIN ss |-> StrItem(ss[i])]

ReviewA == <<"G","r","e","a","t"," ","c","o","f","f","e","e"," ","a","n","d"," ","f","r","i","e","n","d","l","y"," ","s","t","a","f","f",".">>
ReviewC == <<"L","o","v","e","l","y"," ","p","l","a","c","e",","," ","t","h","e"," ","b","a","r","i","s","t","a"," ","k","n","e","w"," ","m","y"," ","o","r","d","e","r",".">>
ReviewD == <<"C","l","e","a","n"," ","s","h","o","p"," ","a","n","d"," ","q","u","i","c","k"," ","c","h","e","c","k","o","u","t"," ","e","v","e","r","y"," ","t","i","m","e",".">>
ReviewB == <<"F","a","s","t"," ","s","e","r","v","i","c","e",","," ","f","a","i","r"," ","p","r","i","c","e","s",","," ","w","i","l","l"," ","r","e","t","u","r","n",".">>

NameCafe == <<"C","a","f","e">>
CategoryRetail == <<"R","e","t","a","i","l">>

Request(name, category, n, tone) ==
  [businessName |-> name, businessCategory |-> category, numberOfReviews |-> n, tone |-> tone]

\* The requests callers make in the model.
Requests == { Request(NameCafe, CategoryRetail, <<>>, <<>>) }
\* the same request, and the request that differs from it in language only
\* (AIReviewRequest.language, left unset above)
KeyRequests ==
  Requests \cup {Request(NameCafe, CategoryRetail, <<>>, <<>>) @@ [language |-> <<"F","r","e","n","c","h">>]}

\* What the upstream endpoint can answer.  kind: "throw" (fetch rejects),
\* "notok" (non-2xx status), "nocontent" (no choices[0].message.content),
\* "json" (content that JSON.parse accepts: an array of items, or some other
\* value), "text" (content that JSON.parse rejects, given by its characters).
Resp(kind, isArray, items, content) ==
  [kind |-> kind, isArray |-> isArray, items |-> items, content |-> content]
Responses == {
  Resp("throw", FALSE, <<>>, <<>>),
  Resp("notok", FALSE, <<>>, <<>>),
  Resp("nocontent", FALSE, <<>>, <<>>),
  Resp("json", TRUE, <<StrItem(ReviewA), StrItem(ReviewB), StrItem(ReviewC), StrItem(ReviewD)>>, <<>>),
  Resp("json", TRUE, <<StrItem(<<>>)>>, <<>>),
  Resp("json", FALSE, <<>>, <<>>),
  Resp("text", FALSE, <<>>, <<"1","."," ">> \o ReviewA \o <<"\n", "\n">> \o <<"o","k">>),
  Resp("text", FALSE, <<>>, <<"-"," ","n","/","a">>) }

\* ------------------------------------------------------------------ state
VARIABLES
  apiKey,             \* is an API key configured (AIReviewService.apiKey is not null)
  ncalls,             \* generateReviews / generateAIReviews invocations so far
  done,               \* history: the latest settled promise
  now,                \* Date.now()
  ticks,              \* clock advances so far
  requestTimestamps,  \* RateLimiter.requestTimestamps
  cache,              \* RequestCache.cache: cache key -> {data, timestamp}
  pending,            \* generateReviews invocations awaiting callAIAPI
  startTimes,         \* history: Date.now() at each generateReviews invocation
  lastStart,          \* history: how the latest invocation passed the gates
  lastFb,             \* history: business key -> first strings of its latest fallback results
  lastLive,           \* history: cache key -> the latest upstream result, when it arrived, for which request
  fallbackIndex,      \* rotating variant: AIReviewService.fallbackIndex
  recentReviewsCache, \* dedup variant: AIReviewService.recentReviewsCache
  inflight,           \* single-review and function variants: invocations awaiting fetch
  generatedReviewsCache, \* batch variant: AIReviewService.generatedReviewsCache
  lastCheck,          \* history: the latest duplicate check and its verdict
  recordLog           \* history: per cache and business key, every fingerprint recorded, in order

\* the state of the rate-limited service only, and of the other variants only
LimitedOnly == <<now, ticks, requestTimestamps, cache, pending, startTimes, lastStart, lastFb, lastLive>>
CacheOnly == <<generatedReviewsCache, lastCheck, recordLog>>
OthersOnly == <<fallbackIndex, recentReviewsCache, inflight, CacheOnly>>
vars == <<apiKey, ncalls, done, LimitedOnly, OthersOnly>>

\* initializeFromEnv: this.enabled = !!this.apiKey
IsEnabled == apiKey

\* `${request.businessName}_${request.businessCategory}`.toLowerCase()
ToLowerChar(c) ==
  IF \E i \in DOMAIN UpperCase : UpperCase[i] = c
  THEN LowerCase[CHOOSE i \in DOMAIN UpperCase : UpperCase[i] = c]
  ELSE c
ToLowerCase(s) == [i \in DOMAIN s |-> ToLowerChar(s[i])]
BusinessKey(req) == ToLowerCase(req.businessName \o <<"_">> \o req.businessCategory)

BusinessKeys == {BusinessKey(r) : r \in Requests}

\* ------------------------------------------------------------ RequestCache
\* RequestCache.get: the entry is expired when older than cacheDurationMs
\* an expiry test that already drops an entry aged exactly cacheDurationMs
CacheIsExpired_AtDuration(c, key, t) == t - c[key].timestamp >= CacheDurationMs
CacheIsExpired(c, key, t) == t - c[key].timestamp > CacheDurationMs
\* a get that no longer returns an entry aged exactly cacheDurationMs
CacheHit_StrictlyYounger(c, key, t) == key \in DOMAIN c /\ t - c[key].timestamp < CacheDurationMs
CacheHit(c, key, t) == key \in DOMAIN c /\ ~CacheIsExpired(c, key, t)
\* a get(key) that leaves an expired entry in the map
CacheAfterGet_KeepsExpired(c, key, t) == c
\* the cache after get(key): an expired entry is deleted
CacheAfterGet(c, key, t) ==
  IF key \in DOMAIN c /\ CacheIsExpired(c, key, t)
  THEN [k \in DOMAIN c \ {key} |-> c[k]]
  ELSE c
\* RequestCache.set
CacheSet(c, key, data, t) ==
  [k \in DOMAIN c \cup {key} |-> IF k = key THEN [data |-> data, timestamp |-> t] ELSE c[k]]

\* ------------------------------------------------------------- RateLimiter
\* a clean-up that keeps the last minute only
PrunedTimestamps_MinuteHorizon(ts, t) == SelectSeq(ts, LAMBDA x : x > t - OneMinute)
\* canMakeRequest, "Clean up old timestamps"
PrunedTimestamps(ts, t) == SelectSeq(ts, LAMBDA x : x > t - OneHour)
\* a minute check that counts the whole trailing hour
LastMinuteRequests_HourHorizon(ts, t) == Len(SelectSeq(ts, LAMBDA x : x > t - OneHour))
\* canMakeRequest, "Check minute limit"
LastMinuteRequests(ts, t) == Len(SelectSeq(ts, LAMBDA x : x > t - OneMinute))
\* a canMakeRequest whose minute check lets one request too many through
CanMakeRequest_MinuteOffByOne(ts, t) ==
  LET kept == PrunedTimestamps(ts, t) IN
  IF LastMinuteRequests(kept, t) > MaxRequestsPerMinute THEN FALSE
  ELSE IF Len(kept) >= MaxRequestsPerHour THEN FALSE
  ELSE TRUE
\* canMakeRequest: its result, on the cleaned-up timestamps
CanMakeRequest(ts, t) ==
  LET kept == PrunedTimestamps(ts, t) IN
  IF LastMinuteRequests(kept, t) >= MaxRequestsPerMinute THEN FALSE
  ELSE IF Len(kept) >= MaxRequestsPerHour THEN FALSE
  ELSE TRUE
\* recordRequest
RecordRequest(ts, t) == Append(ts, t)
\* DEFAULT_RATE_LIMIT_CONFIG
DefaultMaxRequestsPerMinute == 10
DefaultMaxRequestsPerHour == 100
DEFAULT_RATE_LIMIT_CONFIG ==
  [maxRequestsPerMinute |-> DefaultMaxRequestsPerMinute,
   maxRequestsPerHour |-> DefaultMaxRequestsPerHour,
   cacheDurationMs |-> CacheDurationMs]
\* a getRemainingRequests that still counts a request made exactly one
\* minute (one hour) ago
GetRemainingRequests_AtHorizon(config, ts, t) ==
  LET lastMinuteRequests == Len(SelectSeq(ts, LAMBDA x : x >= t - OneMinute))
      lastHourRequests == Len(SelectSeq(ts, LAMBDA x : x >= t - OneHour))
      Max(x, y) == IF x >= y THEN x ELSE y
  IN [perMinute |-> Max(0, config.maxRequestsPerMinute - lastMinuteRequests),
      perHour |-> Max(0, config.maxRequestsPerHour - lastHourRequests)]
\* getRemainingRequests: it filters a copy, the stored timestamps stay
GetRemainingRequests(config, ts, t) ==
  LET lastMinuteRequests == Len(SelectSeq(ts, LAMBDA x : x > t - OneMinute))
      lastHourRequests == Len(SelectSeq(ts, LAMBDA x : x > t - OneHour))
      Max(x, y) == IF x >= y THEN x ELSE y
  IN [perMinute |-> Max(0, config.maxRequestsPerMinute - lastMinuteRequests),
      perHour |-> Max(0, config.maxRequestsPerHour - lastHourRequests)]

\* ----------------------------------------------------------- AIReviewService
\* getFallbackReviews(count)
GetFallbackReviews(count) ==
  StrItems(SubSeq(FALLBACK_REVIEWS, 1, IF count < Len(FALLBACK_REVIEWS) THEN count ELSE Len(FALLBACK_REVIEWS)))

\* generateCacheKey
GenerateCacheKey(req) ==
  req.businessName \o <<"_">> \o req.businessCategory \o <<"_">>
    \o NumToStr(OrDefault(req.numberOfReviews, DefaultNumberOfReviews)) \o <<"_">>
    \o ToneOrDefault(req.tone)

\* callAIAPI, the fallback parsing of content that is no JSON
ParseLines(content, numberOfReviews) ==
  LET lines == SplitLines(content)
      cleaned == [i \in DOMAIN lines |-> Trim(StripListPrefix(lines[i]))]
      kept == SelectSeq(cleaned, LAMBDA l : Len(l) > MinLineLen /\ Len(l) < MaxLineLen)
  IN StrItems(Take(kept, numberOfReviews))

Thrown == [ok |-> FALSE, reviews |-> <<>>]
Returned(reviews) == [ok |-> TRUE, reviews |-> reviews]

\* callAIAPI from the answer of fetch on: what it returns, or that it throws
CallAIAPI(req, resp) ==
  LET numberOfReviews == OrDefault(req.numberOfReviews, DefaultNumberOfReviews)
      reviews == IF resp.kind = "json" THEN resp.items
                 ELSE ParseLines(resp.content, numberOfReviews)
  IN IF resp.kind \in {"throw", "notok", "nocontent"} THEN Thrown
     ELSE IF (resp.kind = "json" /\ ~resp.isArray) \/ Len(reviews) = 0 THEN Thrown
     ELSE Returned(Take(reviews, numberOfReviews))

\* callAIAPI on every request and answer of the model, evaluated once
CallAIAPIResult == [req \in KeyRequests, resp \in Responses |-> CallAIAPI(req, resp)]

Settled(req, path, reviews, fetches, recorded) ==
  [req |-> req, path |-> path, reviews |-> reviews, fetches |-> fetches,
   recorded |-> recorded, rejected |-> FALSE]

RECURSIVE SumOver(_, _)
SumOver(f, S) == IF S = {} THEN 0 ELSE LET x == CHOOSE x \in S : TRUE IN f[x] + SumOver(f, S \ {x})
\* the number of invocations awaiting the upstream
NumPending == SumOver(pending, KeyRequests)

FallbackPaths == {"disabled", "ratelimited", "error"}

\* the first strings of the latest fallback results of a business key, with
\* no other result for that key in between
NoteResult(fb, req, path, reviews) ==
  LET k == BusinessKey(req) IN
  IF path \in FallbackPaths /\ Len(reviews) > 0
  THEN [fb EXCEPT ![k] = IF Len(@) < 2 THEN Append(@, reviews[1].s) ELSE <<@[2], reviews[1].s>>]
  ELSE [fb EXCEPT ![k] = <<>>]

NoCall == [req |-> Request(<<>>, <<>>, <<>>, <<>>), path |-> "none", reviews |-> <<>>,
           fetches |-> 0, recorded |-> 0, rejected |-> FALSE]

\* the state after construction, the API key left open
Constructed ==
  /\ ncalls = 0
  /\ done = NoCall
  /\ now = 0
  /\ ticks = 0
  /\ requestTimestamps = <<>>
  /\ cache = <<>>
  /\ pending = [r \in KeyRequests |-> 0]
  /\ startTimes = <<>>
  /\ lastStart = [prior |-> 0, path |-> "none", req |-> NoCall.req, cacheSize |-> 0, cache |-> <<>>,
                  after |-> <<>>, alone |-> TRUE]
  /\ lastLive = <<>>
  /\ lastFb = [k \in BusinessKeys |-> <<>>]
  /\ fallbackIndex = <<>>
  /\ recentReviewsCache = <<>>
  /\ inflight = <<>>
  /\ generatedReviewsCache = <<>>
  /\ lastCheck = [cache |-> "none", businessKey |-> <<>>, review |-> <<>>, result |-> FALSE]
  /\ recordLog = [c \in {"recent", "generated"} |-> <<>>]

Init == apiKey \in BOOLEAN /\ Constructed

\* Time passes.
TickSteps == {OneMinute, OneHour - OneMinute}
Tick ==
  /\ ticks < MaxTicks
  /\ \E d \in TickSteps : now' = now + d
  /\ ticks' = ticks + 1
  /\ UNCHANGED <<apiKey, ncalls, done, requestTimestamps, cache, pending, startTimes, lastStart, lastFb, lastLive, OthersOnly>>

\* generateReviews(request), up to its return or its await of callAIAPI
GenerateReviews(req) ==
  LET count == OrDefault(req.numberOfReviews, DefaultNumberOfReviews)
      prior == Cardinality({i \in DOMAIN startTimes : startTimes[i] > now - OneMinute})
      cacheKey == GenerateCacheKey(req)
      path == IF ~IsEnabled THEN "disabled"
              ELSE IF ~CanMakeRequest(requestTimestamps, now) THEN "ratelimited"
              ELSE IF CacheHit(cache, cacheKey, now) THEN "cache"
              ELSE "upstream"
      reviews == IF path = "cache" THEN cache[cacheKey].data.reviews
                 ELSE GetFallbackReviews(count)
  IN /\ ncalls < MaxCalls
     /\ path = "upstream" => NumPending < MaxPending
     /\ ncalls' = ncalls + 1
     /\ startTimes' = Append(SelectSeq(startTimes, LAMBDA x : x > now - OneMinute), now)
     /\ lastStart' = [prior |-> prior, path |-> path, req |-> req, cacheSize |-> Cardinality(DOMAIN cache),
                      cache |-> cache,
                      after |-> IF path \in {"cache", "upstream"} THEN CacheAfterGet(cache, cacheKey, now) ELSE cache,
                      alone |-> NumPending = 0]
     /\ requestTimestamps' = IF IsEnabled THEN PrunedTimestamps(requestTimestamps, now)
                             ELSE requestTimestamps
     /\ cache' = IF path \in {"cache", "upstream"} THEN CacheAfterGet(cache, cacheKey, now)
                 ELSE cache
     /\ IF path = "upstream"
        THEN /\ pending' = [pending EXCEPT ![req] = @ + 1]
             /\ UNCHANGED <<done, lastFb>>
        ELSE /\ done' = Settled(req, path, reviews, 0, 0)
             /\ lastFb' = NoteResult(lastFb, req, path, reviews)
             /\ UNCHANGED pending
     /\ UNCHANGED <<apiKey, now, ticks, lastLive, OthersOnly>>

\* The upstream answers invocation i: the rest of callAIAPI and of generateReviews.
UpstreamAnswers(req, resp) ==
  LET call == [req |-> req, cacheKey |-> GenerateCacheKey(req)]
      count == OrDefault(call.req.numberOfReviews, DefaultNumberOfReviews)
      response == CallAIAPIResult[call.req, resp]
      timestamps == IF response.ok THEN RecordRequest(requestTimestamps, now)
                    ELSE requestTimestamps
      path == IF response.ok THEN "live" ELSE "error"
      reviews == IF response.ok THEN response.reviews ELSE GetFallbackReviews(count)
  IN /\ pending[req] > 0
     /\ pending' = [pending EXCEPT ![req] = @ - 1]
     /\ cache' = IF response.ok
                 THEN CacheSet(cache, call.cacheKey, [reviews |-> response.reviews], now)
                 ELSE cache
     /\ requestTimestamps' = timestamps
     /\ done' = Settled(call.req, path, reviews, 1, Len(timestamps) - Len(requestTimestamps))
     /\ lastFb' = NoteResult(lastFb, call.req, path, reviews)
     /\ lastLive' = IF response.ok
                    THEN [k \in DOMAIN lastLive \cup {call.cacheKey} |->
                            IF k = call.cacheKey THEN [reviews |-> response.reviews, at |-> now, req |-> call.req]
                            ELSE lastLive[k]]
                    ELSE lastLive
     /\ UNCHANGED <<apiKey, now, ticks, ncalls, startTimes, lastStart, OthersOnly>>

\* getStatus(), of the service built as
\* new AIReviewService({maxRequestsPerMinute, maxRequestsPerHour})
GetStatus ==
  [enabled |-> apiKey,
   rateLimitStatus |->
     GetRemainingRequests(
       [DEFAULT_RATE_LIMIT_CONFIG EXCEPT !.maxRequestsPerMinute = MaxRequestsPerMinute,
                                         !.maxRequestsPerHour = MaxRequestsPerHour],
       requestTimestamps, now),
   cacheSize |-> Cardinality(DOMAIN cache)]

\* clearCache()
ClearCache ==
  /\ cache # <<>>
  /\ cache' = <<>>
  /\ UNCHANGED <<apiKey, ncalls, done, now, ticks, requestTimestamps, pending, startTimes, lastStart, lastFb, lastLive, OthersOnly>>

Next ==
  \/ Tick
  \/ ClearCache
  \/ \E req \in Requests : GenerateReviews(req)
  \/ \E req \in Requests, resp \in Responses : UpstreamAnswers(req, resp)

Spec == Init /\ [][Next]_vars

\* the same service called with requests that differ in language
NextKeys ==
  \/ Tick
  \/ ClearCache
  \/ \E req \in KeyRequests : GenerateReviews(req)
  \/ \E req \in KeyRequests, resp \in Responses : UpstreamAnswers(req, resp)

SpecKeys == Init /\ [][NextKeys]_vars

\* The same service with the scheduling the code can rely on: the clock
\* advances.  Nothing in callAIAPI bounds the wait for fetch (no AbortSignal,
\* no timer), so the arrival of an upstream answer is not assumed.
SpecLive == Spec /\ WF_vars(Tick)

\* =========================================================================
\* The rotating-fallback variant (unnamed/part_006, first service): one review
\* per call, up to maxRetries fetches, a per-business rotating fallback.
\* =========================================================================
RotMaxRetries == 2
MinReviewLen == 20

KeyAutomotive == <<"a","u","t","o","m","o","t","i","v","e">>
KeyRestaurant == <<"r","e","s","t","a","u","r","a","n","t">>
KeyService == <<"s","e","r","v","i","c","e">>

\* const FALLBACK_REVIEWS: Record<string, string[]>
RotatingFallbackReviews ==
  (KeyAutomotive :> <<
    <<"P","r","o","f","e","s","s","i","o","n","a","l"," ","m","e","c","h","a","n","i","c","s"," ","w","h","o"," ","e","x","p","l","a","i","n","e","d"," ","e","v","e","r","y","t","h","i","n","g"," ","c","l","e","a","r","l","y","."," ","F","a","i","r"," ","p","r","i","c","i","n","g"," ","a","n","d"," ","q","u","a","l","i","t","y"," ","w","o","r","k",".">>,
    <<"E","x","c","e","l","l","e","n","t"," ","s","e","r","v","i","c","e"," ","a","n","d"," ","f","a","i","r"," ","r","a","t","e","s","."," ","G","r","e","a","t"," ","m","e","c","h","a","n","i","c","s"," ","w","h","o"," ","r","e","a","l","l","y"," ","c","a","r","e"," ","a","b","o","u","t"," ","t","h","e","i","r"," ","w","o","r","k",".">>,
    <<"Q","u","i","c","k"," ","t","u","r","n","a","r","o","u","n","d"," ","a","n","d"," ","q","u","a","l","i","t","y"," ","r","e","p","a","i","r","s","."," ","H","i","g","h","l","y"," ","s","a","t","i","s","f","i","e","d"," ","w","i","t","h"," ","t","h","e"," ","t","r","a","n","s","p","a","r","e","n","t"," ","p","r","i","c","i","n","g",".">>,
    <<"E","x","p","e","r","t"," ","d","i","a","g","n","o","s","t","i","c","s"," ","a","n","d"," ","g","e","n","u","i","n","e"," ","p","a","r","t","s","."," ","V","e","r","y"," ","p","r","o","f","e","s","s","i","o","n","a","l"," ","a","n","d"," ","r","e","l","i","a","b","l","e"," ","t","e","a","m",".">>,
    <<"T","h","e","y"," ","f","i","x","e","d"," ","t","h","e"," ","i","s","s","u","e"," ","p","e","r","f","e","c","t","l","y","."," ","G","r","e","a","t"," ","c","u","s","t","o","m","e","r"," ","s","e","r","v","i","c","e"," ","a","n","d"," ","h","o","n","e","s","t"," ","p","r","i","c","i","n","g",".">>,
    <<"A","m","a","z","i","n","g"," ","a","t","t","e","n","t","i","o","n"," ","t","o"," ","d","e","t","a","i","l"," ","o","n"," ","r","e","p","a","i","r","s","."," ","P","r","o","f","e","s","s","i","o","n","a","l"," ","s","t","a","f","f"," ","a","n","d"," ","f","a","i","r"," ","r","a","t","e","s",".">>,
    <<"T","o","p","-","n","o","t","c","h"," ","s","e","r","v","i","c","e","!"," ","S","k","i","l","l","e","d"," ","m","e","c","h","a","n","i","c","s"," ","a","n","d"," ","e","x","c","e","l","l","e","n","t"," ","c","u","s","t","o","m","e","r"," ","c","o","m","m","u","n","i","c","a","t","i","o","n",".">>,
    <<"R","e","l","i","a","b","l","e"," ","a","n","d"," ","t","r","u","s","t","w","o","r","t","h","y","."," ","T","h","e","y"," ","d","i","a","g","n","o","s","e","d"," ","t","h","e"," ","p","r","o","b","l","e","m"," ","c","o","r","r","e","c","t","l","y"," ","o","n"," ","f","i","r","s","t"," ","t","r","y",".">> >>)
  @@ (KeyRestaurant :> <<
    <<"G","r","e","a","t"," ","f","o","o","d"," ","a","n","d"," ","a","t","m","o","s","p","h","e","r","e","!"," ","T","h","e"," ","s","t","a","f","f"," ","w","a","s"," ","a","t","t","e","n","t","i","v","e"," ","a","n","d"," ","t","h","e"," ","e","x","p","e","r","i","e","n","c","e"," ","w","a","s"," ","m","e","m","o","r","a","b","l","e",".">>,
    <<"D","e","l","i","c","i","o","u","s"," ","m","e","n","u"," ","w","i","t","h"," ","f","r","e","s","h"," ","i","n","g","r","e","d","i","e","n","t","s","."," ","F","a","n","t","a","s","t","i","c"," ","a","m","b","i","a","n","c","e"," ","a","n","d"," ","f","r","i","e","n","d","l","y"," ","s","e","r","v","i","c","e",".">>,
    <<"W","o","n","d","e","r","f","u","l"," ","d","i","n","i","n","g"," ","e","x","p","e","r","i","e","n","c","e","!"," ","T","h","e"," ","p","o","r","t","i","o","n","s"," ","w","e","r","e"," ","g","e","n","e","r","o","u","s"," ","a","n","d"," ","f","l","a","v","o","r","s"," ","e","x","c","e","l","l","e","n","t",".">>,
    <<"L","o","v","e","d"," ","t","h","e"," ","a","u","t","h","e","n","t","i","c"," ","c","u","i","s","i","n","e"," ","a","n","d"," ","w","a","r","m"," ","h","o","s","p","i","t","a","l","i","t","y","."," ","W","i","l","l"," ","d","e","f","i","n","i","t","e","l","y"," ","r","e","t","u","r","n",".">>,
    <<"A","m","a","z","i","n","g"," ","f","o","o","d"," ","q","u","a","l","i","t","y"," ","w","i","t","h"," ","p","e","r","f","e","c","t"," ","p","r","e","s","e","n","t","a","t","i","o","n","."," ","S","t","a","f","f"," ","w","a","s"," ","v","e","r","y"," ","a","c","c","o","m","m","o","d","a","t","i","n","g",".">>,
    <<"I","n","c","r","e","d","i","b","l","e"," ","t","a","s","t","e"," ","a","n","d"," ","b","e","a","u","t","i","f","u","l"," ","p","l","a","t","i","n","g","."," ","S","e","r","v","i","c","e"," ","w","a","s"," ","p","r","o","m","p","t"," ","a","n","d"," ","p","r","o","f","e","s","s","i","o","n","a","l",".">>,
    <<"O","n","e"," ","o","f"," ","t","h","e"," ","b","e","s","t"," ","d","i","n","i","n","g"," ","e","x","p","e","r","i","e","n","c","e","s","!"," ","F","r","e","s","h"," ","i","n","g","r","e","d","i","e","n","t","s"," ","a","n","d"," ","s","k","i","l","l","e","d"," ","p","r","e","p","a","r","a","t","i","o","n",".">>,
    <<"F","a","n","t","a","s","t","i","c"," ","f","l","a","v","o","r","s"," ","a","n","d"," ","c","o","z","y"," ","a","t","m","o","s","p","h","e","r","e","."," ","H","i","g","h","l","y"," ","r","e","c","o","m","m","e","n","d"," ","t","h","i","s"," ","r","e","s","t","a","u","r","a","n","t","!">> >>)
  @@ (KeyService :> <<
    <<"P","r","o","f","e","s","s","i","o","n","a","l"," ","a","n","d"," ","r","e","l","i","a","b","l","e"," ","s","e","r","v","i","c","e"," ","w","i","t","h"," ","g","r","e","a","t"," ","a","t","t","e","n","t","i","o","n"," ","t","o"," ","d","e","t","a","i","l","."," ","H","i","g","h","l","y"," ","s","a","t","i","s","f","i","e","d",".">>,
    <<"E","x","c","e","l","l","e","n","t"," ","w","o","r","k"," ","q","u","a","l","i","t","y"," ","a","n","d"," ","p","r","o","m","p","t"," ","c","o","m","p","l","e","t","i","o","n","."," ","V","e","r","y"," ","p","l","e","a","s","e","d"," ","w","i","t","h"," ","t","h","e"," ","r","e","s","u","l","t","s",".">>,
    <<"G","r","e","a","t"," ","s","e","r","v","i","c","e",","," ","f","a","i","r"," ","p","r","i","c","i","n","g",","," ","a","n","d"," ","p","r","o","f","e","s","s","i","o","n","a","l"," ","t","e","a","m","."," ","H","i","g","h","l","y"," ","r","e","c","o","m","m","e","n","d","e","d",".">>,
    <<"T","h","e","y"," ","d","e","l","i","v","e","r","e","d"," ","e","x","a","c","t","l","y"," ","w","h","a","t"," ","t","h","e","y"," ","p","r","o","m","i","s","e","d","."," ","O","u","t","s","t","a","n","d","i","n","g"," ","c","u","s","t","o","m","e","r"," ","s","u","p","p","o","r","t",".">>,
    <<"A","m","a","z","i","n","g"," ","s","e","r","v","i","c","e","!"," ","P","r","o","f","e","s","s","i","o","n","a","l",","," ","t","i","m","e","l","y",","," ","a","n","d"," ","g","r","e","a","t"," ","v","a","l","u","e"," ","f","o","r"," ","m","o","n","e","y",".">>,
    <<"F","a","n","t","a","s","t","i","c"," ","w","o","r","k"," ","q","u","a","l","i","t","y"," ","a","n","d"," ","e","x","c","e","l","l","e","n","t"," ","c","o","m","m","u","n","i","c","a","t","i","o","n"," ","t","h","r","o","u","g","h","o","u","t"," ","t","h","e"," ","p","r","o","c","e","s","s",".">>,
    <<"R","e","l","i","a","b","l","e"," ","t","e","a","m"," ","w","i","t","h"," ","s","t","r","o","n","g"," ","e","x","p","e","r","t","i","s","e","."," ","T","h","e","y"," ","s","o","l","v","e","d"," ","o","u","r"," ","p","r","o","b","l","e","m"," ","e","f","f","i","c","i","e","n","t","l","y",".">>,
    <<"O","u","t","s","t","a","n","d","i","n","g"," ","p","r","o","f","e","s","s","i","o","n","a","l","i","s","m"," ","a","n","d"," ","a","t","t","e","n","t","i","o","n"," ","t","o"," ","d","e","t","a","i","l","."," ","W","i","l","l"," ","d","e","f","i","n","i","t","e","l","y"," ","u","s","e"," ","a","g","a","i","n","!">> >>)

\* FALLBACK_REVIEWS[category.toLowerCase()] || FALLBACK_REVIEWS['service']
RotatingPool(category) ==
  IF ToLowerCase(category) \in DOMAIN RotatingFallbackReviews
  THEN RotatingFallbackReviews[ToLowerCase(category)]
  ELSE RotatingFallbackReviews[KeyService]

\* this.fallbackIndex.get(businessKey) || 0
FallbackIndexOf(idx, businessKey) == IF businessKey \in DOMAIN idx THEN idx[businessKey] ELSE 0
\* getRotatingFallback: the review it returns
GetRotatingFallback(idx, category, businessKey) ==
  LET reviews == RotatingPool(category) IN
  reviews[(FallbackIndexOf(idx, businessKey) % Len(reviews)) + 1]
\* getRotatingFallback: this.fallbackIndex.set(businessKey, index + 1)
AdvanceFallbackIndex(idx, businessKey) ==
  [k \in DOMAIN idx \cup {businessKey} |->
     IF k = businessKey THEN FallbackIndexOf(idx, businessKey) + 1 ELSE idx[k]]

NameDental == <<"B","r","i","g","h","t"," ","S","m","i","l","e"," ","D","e","n","t","a","l">>
CategoryHealthcare == <<"h","e","a","l","t","h","c","a","r","e">>
NameLuigi == <<"L","u","i","g","i">>
CategoryRestaurant == <<"R","e","s","t","a","u","r","a","n","t">>

\* the last two are different businesses: "Luigi_Pizza" in category "Bar",
\* and "Luigi" in category "Pizza_Bar"
RotRequests ==
  LET Pizza == <<"P","i","z","z","a">>
      Bar == <<"B","a","r">>
  IN { Request(NameDental, CategoryHealthcare, <<3>>, <<>>),
       Request(NameLuigi, CategoryRestaurant, <<>>, <<>>),
       Request(NameLuigi \o <<"_">> \o Pizza, Bar, <<>>, <<>>),
       Request(NameLuigi, Pizza \o <<"_">> \o Bar, <<>>, <<>>) }

\* What the upstream can answer to a single-review prompt.  kind: "throw",
\* "notok", "nocontent" as above; "object" (the content holds a {..."review"...}
\* block that JSON.parse accepts, review being its "review" string), "broken"
\* (JSON.parse rejects the block; review is what /"review"\s*:\s*"([^"]+)"/
\* captures, empty when it does not match), "nomatch" (no such block).
Resp1(kind, review) == [kind |-> kind, review |-> review]

ReviewDental == <<" "," ","T","h","e"," ","h","y","g","i","e","n","i","s","t"," ","w","a","s"," ","g","e","n","t","l","e"," ","a","n","d"," ","t","h","e"," ","c","l","i","n","i","c"," ","s","p","o","t","l","e","s","s","."," "," ">>
ReviewShort == <<"N","i","c","e"," ","p","l","a","c","e">>

RotResponses == {
  Resp1("throw", <<>>),
  Resp1("notok", <<>>),
  Resp1("nocontent", <<>>),
  Resp1("object", ReviewDental),
  Resp1("object", ReviewShort),
  Resp1("broken", ReviewDental),
  Resp1("broken", <<>>),
  Resp1("nomatch", <<>>) }

\* one pass of the retry loop from the answer of fetch on: the review it
\* returns, or <<>> when the loop goes on
AttemptReview(resp) ==
  IF resp.kind \in {"object", "broken"} /\ Len(Trim(resp.review)) > MinReviewLen
  THEN <<Trim(resp.review)>>
  ELSE <<>>

RemoveAt(s, i) == [j \in 1..(Len(s) - 1) |-> IF j < i THEN s[j] ELSE s[j + 1]]

InitRot == apiKey \in BOOLEAN /\ Constructed

\* generateReviews(request), up to its return or its first await of fetch
RotGenerateReviews(req) ==
  LET businessKey == BusinessKey(req) IN
  /\ ncalls < MaxCalls
  /\ ncalls' = ncalls + 1
  /\ IF ~apiKey
     THEN /\ done' = Settled(req, "nokey",
                      StrItems(<<GetRotatingFallback(fallbackIndex, req.businessCategory, businessKey)>>), 0, 0)
          /\ fallbackIndex' = AdvanceFallbackIndex(fallbackIndex, businessKey)
          /\ UNCHANGED inflight
     ELSE /\ Len(inflight) < MaxPending
          /\ inflight' = Append(inflight, [req |-> req, attempt |-> 0, issued |-> 1])
          /\ UNCHANGED <<done, fallbackIndex>>
  /\ UNCHANGED <<apiKey, recentReviewsCache, LimitedOnly, CacheOnly>>

\* fetch of invocation i settles: the rest of that pass of the loop, then the
\* next fetch while attempt + 1 < maxRetries, else the rotating fallback
RotFetchSettles(i, resp) ==
  LET call == inflight[i]
      businessKey == BusinessKey(call.req)
      review == AttemptReview(resp)
  IN IF review # <<>>
     THEN /\ done' = Settled(call.req, "live", StrItems(review), call.attempt + 1, 0)
          /\ inflight' = RemoveAt(inflight, i)
          /\ UNCHANGED fallbackIndex
     ELSE IF call.attempt + 1 < RotMaxRetries
     THEN /\ inflight' = [inflight EXCEPT ![i] = [req |-> call.req, attempt |-> call.attempt + 1,
                                                issued |-> call.issued + 1]]
          /\ UNCHANGED <<done, fallbackIndex>>
     ELSE /\ done' = Settled(call.req, "exhausted",
                      StrItems(<<GetRotatingFallback(fallbackIndex, call.req.businessCategory, businessKey)>>),
                      call.attempt + 1, 0)
          /\ fallbackIndex' = AdvanceFallbackIndex(fallbackIndex, businessKey)
          /\ inflight' = RemoveAt(inflight, i)

RotAnswer ==
  /\ \E i \in DOMAIN inflight, resp \in RotResponses : RotFetchSettles(i, resp)
  /\ UNCHANGED <<apiKey, ncalls, recentReviewsCache, LimitedOnly, CacheOnly>>

NextRot ==
  \/ \E req \in RotRequests : RotGenerateReviews(req)
  \/ RotAnswer

SpecRot == InitRot /\ [][NextRot]_vars

\* =========================================================================
\* The deduplicating variant (unnamed/part_005, first service): one review per
\* call, up to maxRetries fetches, recent fingerprints kept per business.
\* =========================================================================
DedupMaxRetries == 3
HashPrefixLen == 80
MaxRecentReviews == 20

IsLowerAlnum(c) == c \in Range(LowerCase) \/ c \in Range(Digits)
\* hashReview: review.toLowerCase().trim().slice(0, 80).replace(/[^a-z0-9]/g, '')
HashReview(review) ==
  SelectSeq(Take(Trim(ToLowerCase(review)), HashPrefixLen), IsLowerAlnum)

KeySoftware == <<"s","o","f","t","w","a","r","e","_","d","e","v","e","l","o","p","m","e","n","t">>
KeyHealthcare == <<"h","e","a","l","t","h","c","a","r","e">>
KeySalon == <<"s","a","l","o","n","_","s","p","a">>
KeyRealEstate == <<"r","e","a","l","_","e","s","t","a","t","e">>
KeyEducation == <<"e","d","u","c","a","t","i","o","n">>

\* getFallbackReview: const fallbacks: Record<string, string>
DedupFallbacks ==
  (KeySoftware :> <<"E","x","c","e","l","l","e","n","t"," ","t","e","c","h","n","i","c","a","l"," ","t","e","a","m"," ","w","i","t","h"," ","d","e","e","p"," ","e","x","p","e","r","t","i","s","e","."," ","D","e","l","i","v","e","r","e","d"," ","e","x","a","c","t","l","y"," ","w","h","a","t"," ","w","e"," ","n","e","e","d","e","d"," ","o","n"," ","t","i","m","e",".">>)
  @@ (KeyRestaurant :> <<"G","r","e","a","t"," ","f","o","o","d"," ","a","n","d"," ","a","t","m","o","s","p","h","e","r","e","!"," ","T","h","e"," ","s","t","a","f","f"," ","w","a","s"," ","a","t","t","e","n","t","i","v","e"," ","a","n","d"," ","t","h","e"," ","e","x","p","e","r","i","e","n","c","e"," ","w","a","s"," ","m","e","m","o","r","a","b","l","e",".">>)
  @@ (KeyAutomotive :> <<"P","r","o","f","e","s","s","i","o","n","a","l"," ","m","e","c","h","a","n","i","c","s"," ","w","h","o"," ","e","x","p","l","a","i","n","e","d"," ","e","v","e","r","y","t","h","i","n","g"," ","c","l","e","a","r","l","y","."," ","F","a","i","r"," ","p","r","i","c","i","n","g"," ","a","n","d"," ","q","u","a","l","i","t","y"," ","w","o","r","k",".">>)
  @@ (KeyHealthcare :> <<"C","o","m","p","a","s","s","i","o","n","a","t","e"," ","c","a","r","e"," ","f","r","o","m"," ","k","n","o","w","l","e","d","g","e","a","b","l","e"," ","m","e","d","i","c","a","l"," ","p","r","o","f","e","s","s","i","o","n","a","l","s","."," ","V","e","r","y"," ","s","a","t","i","s","f","i","e","d"," ","w","i","t","h"," ","t","r","e","a","t","m","e","n","t",".">>)
  @@ (KeySalon :> <<"S","k","i","l","l","e","d"," ","s","t","y","l","i","s","t","s"," ","i","n"," ","a"," ","r","e","l","a","x","i","n","g"," ","a","t","m","o","s","p","h","e","r","e","."," ","D","e","f","i","n","i","t","e","l","y"," ","r","e","t","u","r","n","i","n","g"," ","f","o","r"," ","m","o","r","e"," ","s","e","r","v","i","c","e","s",".">>)
  @@ (KeyRealEstate :> <<"P","r","o","f","e","s","s","i","o","n","a","l"," ","a","g","e","n","t"," ","w","i","t","h"," ","g","r","e","a","t"," ","m","a","r","k","e","t"," ","k","n","o","w","l","e","d","g","e","."," ","S","m","o","o","t","h"," ","t","r","a","n","s","a","c","t","i","o","n"," ","a","n","d"," ","f","a","i","r"," ","p","r","i","c","i","n","g",".">>)
  @@ (KeyEducation :> <<"E","x","c","e","l","l","e","n","t"," ","i","n","s","t","r","u","c","t","o","r","s"," ","w","i","t","h"," ","e","n","g","a","g","i","n","g"," ","t","e","a","c","h","i","n","g"," ","m","e","t","h","o","d","s","."," ","H","i","g","h","l","y"," ","r","e","c","o","m","m","e","n","d","e","d"," ","f","o","r"," ","l","e","a","r","n","i","n","g",".">>)
  @@ (KeyService :> <<"P","r","o","f","e","s","s","i","o","n","a","l"," ","a","n","d"," ","r","e","l","i","a","b","l","e"," ","s","e","r","v","i","c","e"," ","w","i","t","h"," ","g","r","e","a","t"," ","a","t","t","e","n","t","i","o","n"," ","t","o"," ","d","e","t","a","i","l","."," ","H","i","g","h","l","y"," ","s","a","t","i","s","f","i","e","d",".">>)

\* getFallbackReview(category)
GetFallbackReview(category) ==
  IF ToLowerCase(category) \in DOMAIN DedupFallbacks
  THEN DedupFallbacks[ToLowerCase(category)]
  ELSE DedupFallbacks[KeyService]

DedupRequests == {
  Request(NameDental, CategoryHealthcare, <<3>>, <<>>),
  Request(NameLuigi, CategoryRestaurant, <<>>, <<>>) }

ReviewDentalLoud == <<"T","H","E"," ","H","Y","G","I","E","N","I","S","T"," ","W","A","S"," ","G","E","N","T","L","E",","," ","a","n","d"," ","t","h","e"," ","c","l","i","n","i","c",":"," ","s","p","o","t","l","e","s","s","!">>
ReviewPasta == <<"F","r","e","s","h"," ","p","a","s","t","a",","," ","g","e","n","e","r","o","u","s"," ","p","o","r","t","i","o","n","s"," ","a","n","d"," ","a"," ","w","a","r","m"," ","w","e","l","c","o","m","e",".">>

DedupResponses == {
  Resp1("throw", <<>>),
  Resp1("notok", <<>>),
  Resp1("nomatch", <<>>),
  Resp1("object", ReviewDental),
  Resp1("object", ReviewDentalLoud),
  Resp1("object", ReviewShort),
  Resp1("object", GetFallbackReview(CategoryHealthcare)),
  Resp1("broken", ReviewPasta) }

\* a family of review texts with pairwise different fingerprints
SeedReview(k) == <<"V","i","s","i","t"," ">> \o NumToStr(k) \o <<" ","w","a","s"," ","t","r","u","l","y"," ","e","x","c","e","l","l","e","n","t",".">>

\* the texts a call can hand to hashReview, each hashed and trimmed once
DedupTexts ==
  {Trim(resp.review) : resp \in DedupResponses} \cup {GetFallbackReview(req.businessCategory) : req \in DedupRequests}
    \cup {SeedReview(k) : k \in 1..MaxRecords}
HashReviewOf == [review \in DedupTexts |-> HashReview(review)]
DedupBusinessKey == [req \in DedupRequests |-> BusinessKey(req)]
DedupFallbackOf == [req \in DedupRequests |-> GetFallbackReview(req.businessCategory)]
TrimmedReview == [resp \in DedupResponses |-> Trim(resp.review)]

\* isRecentDuplicate: its result
IsRecentDuplicate(c, review, businessKey) ==
  businessKey \in DOMAIN c /\ HashReviewOf[review] \in Range(c[businessKey])
\* isRecentDuplicate with the first entry deleted one insertion too early
AfterIsRecentDuplicate_EvictsEarly(c, review, businessKey) ==
  LET old == IF businessKey \in DOMAIN c THEN c[businessKey] ELSE <<>>
      added == IF HashReviewOf[review] \in Range(old) THEN old ELSE Append(old, HashReviewOf[review])
      kept == IF Len(added) > MaxRecentReviews - 1 THEN Tail(added) ELSE added
  IN [k \in DOMAIN c \cup {businessKey} |-> IF k = businessKey THEN kept ELSE c[k]]
\* isRecentDuplicate: the cache it leaves (the key's set created, the hash of
\* a new review added, the first entry deleted once the set exceeds 20)
AfterIsRecentDuplicate(c, review, businessKey) ==
  LET old == IF businessKey \in DOMAIN c THEN c[businessKey] ELSE <<>>
      added == IF HashReviewOf[review] \in Range(old) THEN old ELSE Append(old, HashReviewOf[review])
      kept == IF Len(added) > MaxRecentReviews THEN Tail(added) ELSE added
  IN [k \in DOMAIN c \cup {businessKey} |-> IF k = businessKey THEN kept ELSE c[k]]

\* one pass of the retry loop: the candidate the answer holds (the value given
\* to `review`), <<>> when the pass assigns none
Candidate(resp) ==
  IF resp.kind \in {"object", "broken"} THEN <<TrimmedReview[resp]>> ELSE <<>>
\* review && review.length > 20
LongEnough(candidate) == candidate # <<>> /\ Len(candidate[1]) > MinReviewLen

DedupSettled(req, path, reviews, fetches, candidate, allDup, wasRecorded) ==
  [req |-> req, path |-> path, reviews |-> reviews, fetches |-> fetches, recorded |-> 0,
   rejected |-> FALSE, candidate |-> candidate, allDup |-> allDup, wasRecorded |-> wasRecorded]

\* the state of a call whose pass ended without a return: the next pass of
\* the for loop awaits the next fetch
DedupNextAttempt_TwoInFlight(call, review, allDup) ==
  [req |-> call.req, attempt |-> call.attempt + 1, issued |-> call.issued + 2,
   review |-> review, allDup |-> allDup]
DedupNextAttempt(call, review, allDup) ==
  [req |-> call.req, attempt |-> call.attempt + 1, issued |-> call.issued + 1,
   review |-> review, allDup |-> allDup]

InitDedup == apiKey \in BOOLEAN /\ Constructed

\* generateReviews(request), up to its return or its first await of fetch
DedupGenerateReviews(req) ==
  /\ ncalls < MaxCalls
  /\ ncalls' = ncalls + 1
  /\ IF ~apiKey
     THEN /\ done' = DedupSettled(req, "nokey", StrItems(<<DedupFallbackOf[req]>>),
                                  0, <<>>, FALSE,
                                  IsRecentDuplicate(recentReviewsCache, DedupFallbackOf[req], DedupBusinessKey[req]))
          /\ UNCHANGED inflight
     ELSE /\ Len(inflight) < MaxPending
          /\ inflight' = Append(inflight, [req |-> req, attempt |-> 0, issued |-> 1, review |-> <<>>, allDup |-> TRUE])
          /\ UNCHANGED done
  /\ UNCHANGED <<apiKey, fallbackIndex, recentReviewsCache, LimitedOnly, CacheOnly>>

\* fetch of invocation i settles: the rest of that pass of the loop.  A fetch
\* that rejects leaves the loop for the outer catch; a pass without an
\* accepted review is followed by the next fetch while attempt + 1 <
\* maxRetries, else by the fallback after the loop.
DedupFetchSettles(i, resp) ==
  LET call == inflight[i]
      businessKey == DedupBusinessKey[call.req]
      candidate == Candidate(resp)
      review == IF candidate # <<>> THEN candidate ELSE call.review
      checked == LongEnough(candidate)
      duplicate == checked /\ IsRecentDuplicate(recentReviewsCache, candidate[1], businessKey)
      allDup == call.allDup /\ duplicate
      fallback == DedupFallbackOf[call.req]
  IN /\ recentReviewsCache' = IF checked
                              THEN AfterIsRecentDuplicate(recentReviewsCache, candidate[1], businessKey)
                              ELSE recentReviewsCache
     /\ IF resp.kind = "throw"
        THEN /\ done' = DedupSettled(call.req, "thrown", StrItems(<<fallback>>), call.attempt + 1,
                                     review, FALSE, IsRecentDuplicate(recentReviewsCache, fallback, businessKey))
             /\ inflight' = RemoveAt(inflight, i)
        ELSE IF checked /\ ~duplicate
        THEN /\ done' = DedupSettled(call.req, "live", StrItems(candidate), call.attempt + 1,
                                     review, FALSE, IsRecentDuplicate(recentReviewsCache, candidate[1], businessKey))
             /\ inflight' = RemoveAt(inflight, i)
        ELSE IF call.attempt + 1 < DedupMaxRetries
        THEN /\ inflight' = [inflight EXCEPT ![i] = DedupNextAttempt(call, review, allDup)]
             /\ UNCHANGED done
        ELSE /\ done' = DedupSettled(call.req, "exhausted", StrItems(<<fallback>>), call.attempt + 1,
                                     review, allDup, IsRecentDuplicate(recentReviewsCache, fallback, businessKey))
             /\ inflight' = RemoveAt(inflight, i)

DedupAnswer ==
  /\ \E i \in DOMAIN inflight, resp \in DedupResponses : DedupFetchSettles(i, resp)
  /\ UNCHANGED <<apiKey, ncalls, fallbackIndex, LimitedOnly, CacheOnly>>

NextDedup ==
  \/ \E req \in DedupRequests : DedupGenerateReviews(req)
  \/ DedupAnswer

SpecDedup == InitDedup /\ [][NextDedup]_vars

\* =========================================================================
\* The function variants: generateAIReviews of unnamed/part_010 (no fallback)
\* and of unnamed/part_009 (fallback pools per category, similarity filter
\* against the caller's excludeReviews).
\* =========================================================================
FnDefaultNumberOfReviews == 3
FnMinLineLen010 == 10
FnMinLineLen009 == 20
MaxSimilarityPercent == 85

KeyAutoGarage == <<"A","u","t","o"," ","G","a","r","a","g","e">>
KeyProfessionalServices == <<"P","r","o","f","e","s","s","i","o","n","a","l"," ","S","e","r","v","i","c","e","s">>
KeyGeneralBusiness == <<"G","e","n","e","r","a","l"," ","B","u","s","i","n","e","s","s">>
CategoryPlumbing == <<"P","l","u","m","b","i","n","g">>

FALLBACK_REVIEWS_BY_CATEGORY ==
  (KeyAutoGarage :> <<
     <<"P","r","o","f","e","s","s","i","o","n","a","l"," ","s","e","r","v","i","c","e"," ","a","n","d"," ","g","e","n","u","i","n","e"," ","c","a","r","e"," ","f","o","r"," ","m","y"," ","v","e","h","i","c","l","e","."," ","T","h","e"," ","t","e","a","m"," ","t","o","o","k"," ","t","i","m","e"," ","t","o"," ","e","x","p","l","a","i","n"," ","e","v","e","r","y"," ","r","e","p","a","i","r"," ","a","n","d"," ","w","a","s"," ","c","o","m","p","l","e","t","e","l","y"," ","t","r","a","n","s","p","a","r","e","n","t"," ","a","b","o","u","t"," ","c","o","s","t","s","."," ","V","e","r","y"," ","s","a","t","i","s","f","i","e","d"," ","w","i","t","h"," ","t","h","e"," ","q","u","a","l","i","t","y"," ","o","f"," ","w","o","r","k","!">>,
     <<"E","x","c","e","l","l","e","n","t"," ","w","o","r","k"," ","o","n"," ","m","y"," ","c","a","r"," ","m","a","i","n","t","e","n","a","n","c","e","."," ","T","h","e","y"," ","f","i","x","e","d"," ","t","h","e"," ","i","s","s","u","e"," ","p","r","o","p","e","r","l","y"," ","a","n","d"," ","t","h","e"," ","p","r","i","c","i","n","g"," ","w","a","s"," ","f","a","i","r","."," ","W","o","u","l","d"," ","d","e","f","i","n","i","t","e","l","y"," ","r","e","c","o","m","m","e","n","d"," ","t","o"," ","a","n","y","o","n","e"," ","l","o","o","k","i","n","g"," ","f","o","r"," ","r","e","l","i","a","b","l","e"," ","a","u","t","o"," ","s","e","r","v","i","c","e",".">>,
     <<"G","r","e","a","t"," ","e","x","p","e","r","i","e","n","c","e","!"," ","T","h","e"," ","m","e","c","h","a","n","i","c","s"," ","w","e","r","e"," ","k","n","o","w","l","e","d","g","e","a","b","l","e"," ","a","n","d"," ","f","r","i","e","n","d","l","y","."," ","T","h","e","y"," ","c","o","m","p","l","e","t","e","d"," ","t","h","e"," ","r","e","p","a","i","r"," ","o","n"," ","t","i","m","e"," ","a","n","d"," ","d","i","d"," ","a"," ","t","h","o","r","o","u","g","h"," ","j","o","b","."," ","W","i","l","l"," ","d","e","f","i","n","i","t","e","l","y"," ","b","e"," ","c","o","m","i","n","g"," ","b","a","c","k"," ","f","o","r"," ","f","u","t","u","r","e"," ","m","a","i","n","t","e","n","a","n","c","e",".">>,
     <<"O","u","t","s","t","a","n","d","i","n","g"," ","s","e","r","v","i","c","e","!"," ","T","h","e","y"," ","d","i","a","g","n","o","s","e","d"," ","t","h","e"," ","p","r","o","b","l","e","m"," ","q","u","i","c","k","l","y"," ","a","n","d"," ","f","i","x","e","d"," ","i","t"," ","r","i","g","h","t"," ","t","h","e"," ","f","i","r","s","t"," ","t","i","m","e","."," ","T","h","e"," ","s","t","a","f","f"," ","w","a","s"," ","h","e","l","p","f","u","l"," ","a","n","d"," ","m","a","d","e"," ","t","h","e"," ","w","h","o","l","e"," ","p","r","o","c","e","s","s"," ","s","m","o","o","t","h","."," ","H","i","g","h","l","y"," ","r","e","c","o","m","m","e","n","d"," ","t","h","i","s"," ","g","a","r","a","g","e","!">>,
     <<"V","e","r","y"," ","i","m","p","r","e","s","s","e","d"," ","w","i","t","h"," ","t","h","e","i","r"," ","t","e","c","h","n","i","c","a","l"," ","e","x","p","e","r","t","i","s","e"," ","a","n","d"," ","p","r","o","f","e","s","s","i","o","n","a","l","i","s","m","."," ","T","h","e","y"," ","a","n","s","w","e","r","e","d"," ","a","l","l"," ","m","y"," ","q","u","e","s","t","i","o","n","s"," ","a","n","d"," ","t","o","o","k"," ","g","r","e","a","t"," ","c","a","r","e"," ","o","f"," ","m","y"," ","v","e","h","i","c","l","e","."," ","B","e","s","t"," ","a","u","t","o"," ","g","a","r","a","g","e"," ","i","n"," ","t","o","w","n","!">>,
     <<"R","e","l","i","a","b","l","e"," ","a","n","d"," ","t","r","u","s","t","w","o","r","t","h","y"," ","s","e","r","v","i","c","e","."," ","T","h","e"," ","t","e","a","m"," ","i","s"," ","h","o","n","e","s","t"," ","a","b","o","u","t"," ","w","h","a","t"," ","n","e","e","d","s"," ","t","o"," ","b","e"," ","d","o","n","e"," ","a","n","d"," ","n","e","v","e","r"," ","p","u","s","h","e","s"," ","u","n","n","e","c","e","s","s","a","r","y"," ","r","e","p","a","i","r","s","."," ","G","r","e","a","t"," ","q","u","a","l","i","t","y"," ","w","o","r","k"," ","a","t"," ","r","e","a","s","o","n","a","b","l","e"," ","p","r","i","c","e","s",".">>,
     <<"E","x","c","e","p","t","i","o","n","a","l"," ","s","e","r","v","i","c","e"," ","q","u","a","l","i","t","y","."," ","T","h","e","y"," ","w","e","n","t"," ","a","b","o","v","e"," ","a","n","d"," ","b","e","y","o","n","d"," ","t","o"," ","e","n","s","u","r","e"," ","m","y"," ","c","a","r"," ","w","a","s"," ","f","i","x","e","d"," ","p","r","o","p","e","r","l","y","."," ","F","r","i","e","n","d","l","y"," ","s","t","a","f","f"," ","a","n","d"," ","c","l","e","a","n"," ","f","a","c","i","l","i","t","i","e","s","."," ","A","b","s","o","l","u","t","e","l","y"," ","5"," ","s","t","a","r","s","!">>,
     <<"Q","u","i","c","k"," ","t","u","r","n","a","r","o","u","n","d"," ","t","i","m","e"," ","a","n","d"," ","e","x","c","e","l","l","e","n","t"," ","c","u","s","t","o","m","e","r"," ","s","e","r","v","i","c","e","."," ","T","h","e"," ","s","t","a","f","f"," ","e","x","p","l","a","i","n","e","d"," ","t","h","e"," ","r","e","p","a","i","r","s"," ","c","l","e","a","r","l","y"," ","a","n","d"," ","t","h","e"," ","f","i","n","a","l"," ","r","e","s","u","l","t"," ","e","x","c","e","e","d","e","d"," ","m","y"," ","e","x","p","e","c","t","a","t","i","o","n","s","!">>,
     <<"B","e","e","n"," ","b","r","i","n","g","i","n","g"," ","m","y"," ","c","a","r"," ","h","e","r","e"," ","f","o","r"," ","o","v","e","r"," ","a"," ","y","e","a","r","."," ","C","o","n","s","i","s","t","e","n","t"," ","q","u","a","l","i","t","y",","," ","f","a","i","r"," ","p","r","i","c","i","n","g",","," ","a","n","d"," ","t","h","e","y"," ","a","l","w","a","y","s"," ","t","r","e","a","t"," ","m","e"," ","l","i","k","e"," ","f","a","m","i","l","y","."," ","T","h","i","s"," ","i","s"," ","t","h","e"," ","p","l","a","c","e"," ","t","o"," ","s","e","r","v","i","c","e"," ","y","o","u","r"," ","v","e","h","i","c","l","e","!">>,
     <<"I","m","p","r","e","s","s","i","v","e"," ","t","e","c","h","n","i","c","a","l"," ","k","n","o","w","l","e","d","g","e","."," ","T","h","e","y"," ","f","i","x","e","d"," ","a"," ","p","r","o","b","l","e","m"," ","t","h","a","t"," ","o","t","h","e","r"," ","s","h","o","p","s"," ","c","o","u","l","d","n","'","t"," ","d","i","a","g","n","o","s","e","."," ","W","o","n","'","t"," ","g","o"," ","a","n","y","w","h","e","r","e"," ","e","l","s","e"," ","f","o","r"," ","m","y"," ","c","a","r"," ","m","a","i","n","t","e","n","a","n","c","e",".">>,
     <<"G","r","e","a","t"," ","a","t","t","e","n","t","i","o","n"," ","t","o"," ","d","e","t","a","i","l"," ","a","n","d"," ","p","r","o","f","e","s","s","i","o","n","a","l","i","s","m","."," ","T","h","e"," ","m","e","c","h","a","n","i","c","s"," ","r","e","a","l","l","y"," ","c","a","r","e"," ","a","b","o","u","t"," ","d","o","i","n","g"," ","g","o","o","d"," ","w","o","r","k","."," ","F","o","u","n","d"," ","s","o","m","e"," ","i","s","s","u","e","s"," ","I"," ","d","i","d","n","'","t"," ","k","n","o","w"," ","a","b","o","u","t"," ","a","n","d"," ","f","i","x","e","d"," ","t","h","e","m"," ","p","r","o","p","e","r","l","y",".">>,
     <<"H","i","g","h","l","y"," ","r","e","c","o","m","m","e","n","d","!"," ","P","r","o","f","e","s","s","i","o","n","a","l"," ","s","e","r","v","i","c","e",","," ","f","a","i","r"," ","p","r","i","c","e","s",","," ","a","n","d"," ","t","r","a","n","s","p","a","r","e","n","t"," ","a","b","o","u","t"," ","e","v","e","r","y","t","h","i","n","g","."," ","T","h","e","y"," ","r","e","a","l","l","y"," ","u","n","d","e","r","s","t","a","n","d"," ","c","a","r","s"," ","a","n","d"," ","t","r","e","a","t"," ","c","u","s","t","o","m","e","r","s"," ","w","i","t","h"," ","r","e","s","p","e","c","t",".">> >>)
  @@ (KeyProfessionalServices :> <<
     <<"E","x","c","e","l","l","e","n","t"," ","s","e","r","v","i","c","e","!"," ","P","r","o","f","e","s","s","i","o","n","a","l"," ","t","e","a","m",","," ","o","n","-","t","i","m","e"," ","d","e","l","i","v","e","r","y",","," ","a","n","d"," ","g","r","e","a","t"," ","c","o","m","m","u","n","i","c","a","t","i","o","n"," ","t","h","r","o","u","g","h","o","u","t",".">>,
     <<"V","e","r","y"," ","s","a","t","i","s","f","i","e","d"," ","w","i","t","h"," ","t","h","e"," ","w","o","r","k"," ","d","o","n","e","."," ","H","i","g","h","l","y"," ","s","k","i","l","l","e","d"," ","p","r","o","f","e","s","s","i","o","n","a","l","s"," ","w","h","o"," ","d","e","l","i","v","e","r"," ","q","u","a","l","i","t","y"," ","r","e","s","u","l","t","s",".">>,
     <<"G","r","e","a","t"," ","e","x","p","e","r","i","e","n","c","e","!"," ","T","h","e"," ","t","e","a","m"," ","u","n","d","e","r","s","t","o","o","d"," ","m","y"," ","n","e","e","d","s"," ","a","n","d"," ","d","e","l","i","v","e","r","e","d"," ","e","x","a","c","t","l","y"," ","w","h","a","t"," ","I"," ","w","a","n","t","e","d",".">> >>)
  @@ (KeyGeneralBusiness :> <<
     <<"G","r","e","a","t"," ","s","e","r","v","i","c","e","!"," ","P","r","o","f","e","s","s","i","o","n","a","l"," ","t","e","a","m"," ","a","n","d"," ","e","x","c","e","l","l","e","n","t"," ","r","e","s","u","l","t","s",".">>,
     <<"V","e","r","y"," ","s","a","t","i","s","f","i","e","d"," ","w","i","t","h"," ","t","h","e"," ","q","u","a","l","i","t","y"," ","a","n","d"," ","t","h","e"," ","s","e","r","v","i","c","e"," ","p","r","o","v","i","d","e","d",".">>,
     <<"H","i","g","h","l","y"," ","r","e","c","o","m","m","e","n","d","!"," ","B","e","s","t"," ","i","n"," ","c","l","a","s","s"," ","s","e","r","v","i","c","e"," ","a","n","d"," ","s","u","p","p","o","r","t",".">> >>)

\* FALLBACK_REVIEWS_BY_CATEGORY[category] || FALLBACK_REVIEWS_BY_CATEGORY['Professional Services']
CategoryReviews(category) ==
  IF category \in DOMAIN FALLBACK_REVIEWS_BY_CATEGORY
  THEN FALLBACK_REVIEWS_BY_CATEGORY[category]
  ELSE FALLBACK_REVIEWS_BY_CATEGORY[KeyProfessionalServices]

Min2(a, b) == IF a < b THEN a ELSE b

\* getEditDistance: the body of the inner loop for one i > 0 and one j > 0;
\* st holds costs and lastValue.  costs[j] of the code is costs[j + 1] here
\* (sequences start at 1).
EditCell(s1, s2, i, j, st) ==
  LET newValue == IF s1[i] # s2[j]
                  THEN Min2(Min2(st.costs[j], st.lastValue), st.costs[j + 1]) + 1
                  ELSE st.costs[j]
  IN [costs |-> [st.costs EXCEPT ![j] = st.lastValue], lastValue |-> newValue]

\* the inner loop for j = lo..hi in order (split in halves to bound the
\* depth of the evaluation)
RECURSIVE EditCols(_, _, _, _, _, _)
EditCols(s1, s2, i, lo, hi, st) ==
  IF lo > hi THEN st
  ELSE IF lo = hi THEN EditCell(s1, s2, i, lo, st)
  ELSE LET half == EditCols(s1, s2, i, lo, (lo + hi) \div 2, st)
       IN IF half.lastValue >= 0   \* evaluates the first half before the second
          THEN EditCols(s1, s2, i, ((lo + hi) \div 2) + 1, hi, half)
          ELSE half

\* one pass of the outer loop for i > 0, ending with costs[s2.length] = lastValue
EditRow(s1, s2, i, costs) ==
  LET st == EditCols(s1, s2, i, 1, Len(s2), [costs |-> costs, lastValue |-> i])
  IN [st.costs EXCEPT ![Len(s2) + 1] = st.lastValue]

\* the outer loop for i = lo..hi in order
RECURSIVE EditRows(_, _, _, _, _)
EditRows(s1, s2, lo, hi, costs) ==
  IF lo > hi THEN costs
  ELSE IF lo = hi THEN EditRow(s1, s2, lo, costs)
  ELSE LET half == EditRows(s1, s2, lo, (lo + hi) \div 2, costs)
       IN IF Len(half) > 0   \* evaluates the first half before the second
          THEN EditRows(s1, s2, ((lo + hi) \div 2) + 1, hi, half)
          ELSE half

\* getEditDistance(s1, s2): the pass for i = 0 sets costs[j] = j
GetEditDistance(s1, s2) ==
  EditRows(s1, s2, 1, Len(s1), [j \in 1..(Len(s2) + 1) |-> j - 1])[Len(s2) + 1]

\* calculateSimilarity(str1, str2) > maxSimilarityScore, with the quotient
\* (longer.length - editDistance) / longer.length compared in integers
TooSimilar(str1, str2) ==
  LET s1 == ToLowerCase(str1)
      s2 == ToLowerCase(str2)
      longer == IF Len(s1) > Len(s2) THEN s1 ELSE s2
      shorter == IF Len(s1) > Len(s2) THEN s2 ELSE s1
  IN IF Len(longer) = 0 THEN TRUE
     ELSE 100 * (Len(longer) - GetEditDistance(longer, shorter)) > MaxSimilarityPercent * Len(longer)

\* reviewText.split('\n'): every piece between single line feeds, empty ones kept
SplitOnLineFeed(s) ==
  LET feeds == {i \in DOMAIN s : s[i] = "\n"}
      starts == {1} \cup {i + 1 : i \in feeds}
      NextFeed(p) == IF \E i \in feeds : i >= p
                     THEN CHOOSE i \in feeds : i >= p /\ \A k \in feeds : k >= p => i <= k
                     ELSE Len(s) + 1
  IN [k \in 1..Cardinality(starts) |->
        LET p == CHOOSE q \in starts : Cardinality({r \in starts : r < q}) = k - 1
        IN SubSeq(s, p, NextFeed(p) - 1)]

TrimAll(lines) == [i \in DOMAIN lines |-> Trim(lines[i])]

\* line.match(/^\d+\.|^[-*]/)
RECURSIVE DigitsThenDot(_, _)
DigitsThenDot(line, i) ==
  /\ i <= Len(line)
  /\ \/ (i > 1 /\ line[i] = ".")
     \/ (IsDigit(line[i]) /\ DigitsThenDot(line, i + 1))
IsListItem(line) == line # <<>> /\ (DigitsThenDot(line, 1) \/ line[1] \in {"-", "*"})

\* part_010: split, trim, filter(length > 10), slice(0, numberOfReviews)
ParseReviews010(reviewText, numberOfReviews) ==
  Take(SelectSeq(TrimAll(SplitOnLineFeed(reviewText)),
                 LAMBDA review : Len(review) > FnMinLineLen010), numberOfReviews)

\* part_009: split, trim, filter(length > 20 and no list marker), slice(0, numberOfReviews)
ParseReviews009(reviewText, numberOfReviews) ==
  Take(SelectSeq(TrimAll(SplitOnLineFeed(reviewText)),
                 LAMBDA line : Len(line) > FnMinLineLen009 /\ ~IsListItem(line)), numberOfReviews)

FnRequest(variant, category, n, excludeReviews) ==
  [variant |-> variant, category |-> category, numberOfReviews |-> n, excludeReviews |-> excludeReviews]

\* numberOfReviews = 3 as a default parameter: used when the argument is undefined
FnCount(req) == IF req.numberOfReviews = <<>> THEN FnDefaultNumberOfReviews ELSE req.numberOfReviews[1]

FnRequests == {
  FnRequest("010", CategoryPlumbing, <<>>, <<>>),
  FnRequest("010", CategoryPlumbing, <<1>>, <<>>),
  FnRequest("009", CategoryPlumbing, <<1>>, <<>>),
  FnRequest("009", CategoryPlumbing, <<3>>, <<>>),
  FnRequest("009", CategoryPlumbing, <<1>>, <<ReviewPasta>>),
  FnRequest("009", CategoryPlumbing, <<3>>, <<ReviewPasta>>),
  FnRequest("009", CategoryPlumbing, <<1>>, CategoryReviews(CategoryPlumbing)),
  FnRequest("009", CategoryPlumbing, <<3>>, CategoryReviews(CategoryPlumbing)),
  FnRequest("009", KeyGeneralBusiness, <<>>, <<CategoryReviews(CategoryPlumbing)[1]>>) }

FnResp(kind, content) == [kind |-> kind, content |-> content]

ContentLines ==
  CategoryReviews(CategoryPlumbing)[1] \o <<"\n", " ">> \o ReviewPasta \o <<" ", "\n">>
    \o <<"2","."," ","N","u","m","b","e","r","e","d"," ","l","i","n","e","s"," ","a","r","e"," ","d","r","o","p","p","e","d"," ","b","y"," ","o","n","e"," ","v","a","r","i","a","n","t",".">> \o <<"\n">> \o <<"o","k">>
ContentNoReview == <<"-"," ","n","/","a">>

FnResponses == {
  FnResp("throw", <<>>),
  FnResp("notok", <<>>),
  FnResp("text", <<>>),
  FnResp("text", ContentLines),
  FnResp("text", ContentNoReview) }

Parsed010 == [req \in FnRequests, resp \in FnResponses |-> ParseReviews010(resp.content, FnCount(req))]
Parsed009 == [req \in FnRequests, resp \in FnResponses |-> ParseReviews009(resp.content, FnCount(req))]

\* every text deduplicateReviews can be given, and every text it can be given to exclude
FnReviewTexts ==
  UNION {Range(CategoryReviews(req.category)) : req \in FnRequests}
    \cup UNION {Range(Parsed009[req, resp]) : req \in FnRequests, resp \in FnResponses}
FnExcludeTexts == UNION {Range(req.excludeReviews) : req \in FnRequests}
TooSimilarTo == [review \in FnReviewTexts, existing \in FnExcludeTexts |-> TooSimilar(review, existing)]

\* deduplicateReviews(reviews, excludeReviews)
DeduplicateReviews(reviews, excludeReviews) ==
  IF Len(excludeReviews) = 0 THEN reviews
  ELSE SelectSeq(reviews, LAMBDA review :
         ~ \E k \in DOMAIN excludeReviews : TooSimilarTo[review, excludeReviews[k]])

\* [...categoryReviews].sort(() => Math.random() - 0.5): any order of the pool
Shuffles(pool) == {[i \in DOMAIN pool |-> pool[p[i]]] : p \in Permutations(DOMAIN pool)}

\* part_009 getFallbackReviews, given the order the shuffle produced
FnGetFallbackReviews(shuffled, numberOfReviews, excludeReviews) ==
  Take(DeduplicateReviews(shuffled, excludeReviews), numberOfReviews)

Rejected(req, fetches) ==
  [req |-> req, path |-> "rejected", reviews |-> <<>>, fetches |-> fetches, recorded |-> 0, rejected |-> TRUE]

InitFn == apiKey \in BOOLEAN /\ Constructed

\* generateAIReviews(...), up to its return, its throw or its await of fetch
FnGenerateAIReviews(req) ==
  /\ ncalls < MaxCalls
  /\ ncalls' = ncalls + 1
  /\ IF apiKey
     THEN /\ Len(inflight) < MaxPending
          /\ inflight' = Append(inflight, [req |-> req])
          /\ UNCHANGED done
     ELSE /\ UNCHANGED inflight
          /\ IF req.variant = "010"
             THEN done' = Rejected(req, 0)
             ELSE \E settled \in {Settled(req, "nokey",
                                          StrItems(FnGetFallbackReviews(shuffled, FnCount(req), req.excludeReviews)), 0, 0) :
                                    shuffled \in Shuffles(CategoryReviews(req.category))} :
                    done' = settled
  /\ UNCHANGED <<apiKey, fallbackIndex, recentReviewsCache, LimitedOnly, CacheOnly>>

\* part_010: fetch of invocation i settles
Fn010FetchSettles(i, resp) ==
  LET req == inflight[i].req
  IN /\ req.variant = "010"
     /\ inflight' = RemoveAt(inflight, i)
     /\ done' = IF resp.kind # "text" \/ Len(Parsed010[req, resp]) = 0
                THEN Rejected(req, 1)
                ELSE Settled(req, "live", StrItems(Parsed010[req, resp]), 1, 0)

\* part_009: fetch of invocation i settles (a rejected fetch includes the
\* abort the 10 second timer causes)
Fn009FetchSettles(i, resp) ==
  LET req == inflight[i].req
      reviews == Parsed009[req, resp]
  IN /\ req.variant = "009"
     /\ inflight' = RemoveAt(inflight, i)
     /\ \E settled \in
            {IF resp.kind # "text" \/ Len(resp.content) = 0
             THEN Settled(req, "fallback",
                          StrItems(FnGetFallbackReviews(shuffled, FnCount(req), req.excludeReviews)), 1, 0)
             ELSE IF Len(reviews) < FnCount(req)
             THEN Settled(req, "live",
                          StrItems(Take(reviews \o FnGetFallbackReviews(shuffled, FnCount(req) - Len(reviews),
                                                                       req.excludeReviews), FnCount(req))), 1, 0)
             ELSE Settled(req, "live",
                          StrItems(Take(DeduplicateReviews(reviews, req.excludeReviews), FnCount(req))), 1, 0) :
             shuffled \in Shuffles(CategoryReviews(req.category))} :
          done' = settled

Fn010Answer ==
  /\ \E i \in DOMAIN inflight, resp \in FnResponses : Fn010FetchSettles(i, resp)
  /\ UNCHANGED <<apiKey, ncalls, fallbackIndex, recentReviewsCache, LimitedOnly, CacheOnly>>

Fn009Answer ==
  /\ \E i \in DOMAIN inflight, resp \in FnResponses : Fn009FetchSettles(i, resp)
  /\ UNCHANGED <<apiKey, ncalls, fallbackIndex, recentReviewsCache, LimitedOnly, CacheOnly>>

NextFn ==
  \/ \E req \in FnRequests : FnGenerateAIReviews(req)
  \/ Fn010Answer
  \/ Fn009Answer

SpecFn == InitFn /\ [][NextFn]_vars

\* =========================================================================
\* The two deduplication caches on their own: isRecentDuplicate of the
\* single-review variant and the filter callback of the batch variant
\* (isReviewDuplicate, then markReviewAsUsed), applied to a family of review
\* texts long enough to fill a business key's set.
\* =========================================================================
BatchHashPrefixLen == 100

\* batch variant hashReview: toLowerCase().trim().slice(0, 100).replace(/[^a-z0-9]/g, '')
HashReviewBatch(review) ==
  SelectSeq(Take(Trim(ToLowerCase(review)), BatchHashPrefixLen), IsLowerAlnum)
HashReviewBatchOf == [review \in DedupTexts |-> HashReviewBatch(review)]

\* isReviewDuplicate(review, businessKey): get(businessKey) || new Set(), has(hash)
IsReviewDuplicate(c, review, businessKey) ==
  businessKey \in DOMAIN c /\ HashReviewBatchOf[review] \in Range(c[businessKey])

\* markReviewAsUsed(review, businessKey): the cache it leaves
MarkReviewAsUsed(c, review, businessKey) ==
  LET old == IF businessKey \in DOMAIN c THEN c[businessKey] ELSE <<>>
      added == IF HashReviewBatchOf[review] \in Range(old) THEN old
               ELSE Append(old, HashReviewBatchOf[review])
  IN [k \in DOMAIN c \cup {businessKey} |-> IF k = businessKey THEN added ELSE c[k]]

\* the business key whose sets are filled
CacheKeys == {BusinessKey(Request(NameDental, CategoryHealthcare, <<>>, <<>>))}
LogOf(log, c, businessKey) == IF businessKey \in DOMAIN log[c] THEN log[c][businessKey] ELSE <<>>
Logged(log, c, businessKey, hash) ==
  [log EXCEPT ![c] = [k \in DOMAIN log[c] \cup {businessKey} |->
                        IF k = businessKey THEN Append(LogOf(log, c, businessKey), hash) ELSE log[c][k]]]
NumRecorded == SumOver([k \in CacheKeys |-> Len(LogOf(recordLog, "recent", k)) + Len(LogOf(recordLog, "generated", k))],
                       CacheKeys)

InitCache == apiKey = TRUE /\ Constructed

\* isRecentDuplicate(review, businessKey) on the k-th text of the family
CacheIsRecentDuplicate(k, businessKey) ==
  LET review == SeedReview(k)
      result == IsRecentDuplicate(recentReviewsCache, review, businessKey)
  IN /\ k <= Len(LogOf(recordLog, "recent", businessKey)) + 1
     /\ result \/ NumRecorded < MaxRecords
     /\ recentReviewsCache' = AfterIsRecentDuplicate(recentReviewsCache, review, businessKey)
     /\ lastCheck' = [cache |-> "recent", businessKey |-> businessKey, review |-> review, result |-> result]
     /\ recordLog' = IF result THEN recordLog ELSE Logged(recordLog, "recent", businessKey, HashReviewOf[review])
     /\ UNCHANGED <<apiKey, ncalls, done, LimitedOnly, fallbackIndex, inflight, generatedReviewsCache>>

\* the callback of reviews.filter(...) on the k-th text of the family:
\* isReviewDuplicate, and markReviewAsUsed when it says no
CacheFilterReview(k, businessKey) ==
  LET review == SeedReview(k)
      isDuplicate == IsReviewDuplicate(generatedReviewsCache, review, businessKey)
  IN /\ k <= Len(LogOf(recordLog, "generated", businessKey)) + 1
     /\ isDuplicate \/ NumRecorded < MaxRecords
     /\ generatedReviewsCache' = IF isDuplicate THEN generatedReviewsCache
                                 ELSE MarkReviewAsUsed(generatedReviewsCache, review, businessKey)
     /\ lastCheck' = [cache |-> "generated", businessKey |-> businessKey, review |-> review, result |-> isDuplicate]
     /\ recordLog' = IF isDuplicate THEN recordLog
                     ELSE Logged(recordLog, "generated", businessKey, HashReviewBatchOf[review])
     /\ UNCHANGED <<apiKey, ncalls, done, LimitedOnly, fallbackIndex, inflight, recentReviewsCache>>

NextCache ==
  \/ \E k \in 1..MaxRecords, businessKey \in CacheKeys : CacheIsRecentDuplicate(k, businessKey)
  \/ \E k \in 1..MaxRecords, businessKey \in CacheKeys : CacheFilterReview(k, businessKey)

SpecCache == InitCache /\ [][NextCache]_vars

\* =========================================================================
\* The batch variant (unnamed/part_005, second service): one fetch per call,
\* the answer parsed into a list and filtered against generatedReviewsCache.
\* =========================================================================
BatchDefaultNumberOfReviews == 3
BatchDefaultPromptCount == 10
BatchMinLineLen == 10
BatchMinReviewLen == 20
BatchMaxReviewLen == 500

\* getFallbackReviews(count): fallbacks.slice(0, count)
BatchGetFallbackReviews(count) ==
  Take(<< <<"G","r","e","a","t"," ","s","e","r","v","i","c","e","!"," ","H","i","g","h","l","y"," ","s","a","t","i","s","f","i","e","d"," ","w","i","t","h"," ","t","h","e"," ","e","x","p","e","r","i","e","n","c","e",".">>,
          <<"P","r","o","f","e","s","s","i","o","n","a","l"," ","t","e","a","m"," ","w","i","t","h"," ","e","x","c","e","l","l","e","n","t"," ","a","t","t","e","n","t","i","o","n"," ","t","o"," ","d","e","t","a","i","l",".">>,
          <<"E","x","c","e","e","d","e","d"," ","e","x","p","e","c","t","a","t","i","o","n","s"," ","f","r","o","m"," ","s","t","a","r","t"," ","t","o"," ","f","i","n","i","s","h",".">>,
          <<"H","i","g","h","l","y"," ","r","e","c","o","m","m","e","n","d","e","d"," ","f","o","r"," ","q","u","a","l","i","t","y"," ","a","n","d"," ","r","e","l","i","a","b","i","l","i","t","y",".">>,
          <<"O","u","t","s","t","a","n","d","i","n","g"," ","e","x","p","e","r","i","e","n","c","e","!"," ","W","i","l","l"," ","d","e","f","i","n","i","t","e","l","y"," ","r","e","t","u","r","n",".">>,
          <<"I","m","p","r","e","s","s","e","d"," ","w","i","t","h"," ","t","h","e"," ","p","r","o","f","e","s","s","i","o","n","a","l","i","s","m"," ","a","n","d"," ","e","x","p","e","r","t","i","s","e",".">>,
          <<"B","e","s","t"," ","c","h","o","i","c","e"," ","f","o","r"," ","t","h","e","i","r"," ","e","x","p","e","r","t","i","s","e"," ","a","n","d"," ","s","e","r","v","i","c","e"," ","q","u","a","l","i","t","y",".">>,
          <<"F","a","s","t",","," ","r","e","l","i","a","b","l","e",","," ","a","n","d"," ","p","r","o","f","e","s","s","i","o","n","a","l"," ","s","e","r","v","i","c","e"," ","d","e","l","i","v","e","r","y",".">> >>, count)

\* "Parse JSON array": the reviews before the uniqueness filter.  kind "json":
\* JSON.parse accepts the [...] block, the strings of the array are kept;
\* "nomatch": the content holds no [...] block; "text": JSON.parse rejects the
\* block and the lines of the content are taken instead
BatchParseReviews(resp, numberOfReviews) ==
  LET Quotes == {"\"", "'"}
      \* line.replace(/^["']|["']$|^\d+\.\s*/g, '')
      Digits1(line) == CHOOSE k \in 0..Len(line) :
                         /\ \A j \in 1..k : IsDigit(line[j])
                         /\ (k = Len(line) \/ ~IsDigit(line[k + 1]))
      Spaces(line, from) == CHOOSE k \in 0..(Len(line) - from + 1) :
                              /\ \A j \in from..(from + k - 1) : IsWhitespace(line[j])
                              /\ (from + k > Len(line) \/ ~IsWhitespace(line[from + k]))
      Lead(line) == IF line # <<>> /\ line[1] \in Quotes THEN 1
                    ELSE IF Digits1(line) >= 1 /\ Digits1(line) < Len(line) /\ line[Digits1(line) + 1] = "."
                    THEN Digits1(line) + 1 + Spaces(line, Digits1(line) + 2)
                    ELSE 0
      Trail(line) == IF Len(line) > Lead(line) /\ line[Len(line)] \in Quotes THEN 1 ELSE 0
      Replaced(line) == SubSeq(line, Lead(line) + 1, Len(line) - Trail(line))
      lines == SelectSeq(SplitOnLineFeed(resp.content), LAMBDA l : Len(Trim(l)) > BatchMinLineLen)
      cleaned == [i \in DOMAIN lines |-> Trim(Replaced(lines[i]))]
  IN IF resp.kind = "json"
     THEN LET strings == SelectSeq(resp.items, LAMBDA r : r.isString)
          IN [i \in DOMAIN strings |-> strings[i].s]
     ELSE IF resp.kind = "text"
     THEN Take(SelectSeq(cleaned, LAMBDA line : Len(line) > BatchMinReviewLen /\ Len(line) < BatchMaxReviewLen),
               numberOfReviews)
     ELSE <<>>

InitBatch == apiKey \in BOOLEAN /\ Constructed

\* generateReviews(request) of the batch variant, up to its return or its
\* await of fetch; asked is the count written into the prompt
BatchGenerateReviews(req) ==
  /\ ncalls < MaxCalls
  /\ ncalls' = ncalls + 1
  /\ IF ~apiKey
     THEN /\ done' = Settled(req, "nokey",
                      StrItems(BatchGetFallbackReviews(OrDefault(req.numberOfReviews, BatchDefaultNumberOfReviews))), 0, 0)
          /\ UNCHANGED inflight
     ELSE /\ Len(inflight) < MaxPending
          /\ inflight' = Append(inflight, [req |-> req, attempt |-> 0, issued |-> 1,
                                           asked |-> OrDefault(req.numberOfReviews, BatchDefaultPromptCount)])
          /\ UNCHANGED done
  /\ UNCHANGED <<apiKey, fallbackIndex, recentReviewsCache, CacheOnly, LimitedOnly>>

\* fetch of invocation i settles: the rest of generateReviews
BatchFetchSettles(i, resp) ==
  LET call == inflight[i]
      req == call.req
      businessKey == BusinessKey(req)
      fallback == StrItems(BatchGetFallbackReviews(OrDefault(req.numberOfReviews, BatchDefaultNumberOfReviews)))
      reviews == BatchParseReviews(resp, call.asked)
      \* reviews.filter(...): the cache and the reviews kept after the first n
      RECURSIVE Filtered(_)
      Filtered(n) ==
        IF n = 0 THEN [cache |-> generatedReviewsCache, unique |-> <<>>]
        ELSE LET before == Filtered(n - 1)
                 isDuplicate == IsReviewDuplicate(before.cache, reviews[n], businessKey)
             IN IF isDuplicate THEN before
                ELSE [cache |-> MarkReviewAsUsed(before.cache, reviews[n], businessKey),
                      unique |-> Append(before.unique, reviews[n])]
      filtered == Filtered(Len(reviews))
  IN /\ inflight' = RemoveAt(inflight, i)
     /\ IF resp.kind \in {"throw", "notok", "nocontent"}
        THEN /\ done' = Settled(req, IF resp.kind = "throw" THEN "thrown" ELSE resp.kind, fallback, 1, 0)
             /\ UNCHANGED generatedReviewsCache
        ELSE /\ generatedReviewsCache' = filtered.cache
             /\ done' = IF Len(filtered.unique) > 0
                        THEN Settled(req, "live", StrItems(filtered.unique), 1, Len(filtered.unique))
                        ELSE Settled(req, "empty", fallback, 1, 0)
     /\ UNCHANGED <<apiKey, ncalls, fallbackIndex, recentReviewsCache, lastCheck, recordLog, LimitedOnly>>

NextBatch ==
  LET BatchRequests == { Request(NameDental, CategoryHealthcare, <<>>, <<>>),
                         Request(NameDental, CategoryHealthcare, <<3>>, <<>>) }
      BatchResponses == {
        Resp("throw", FALSE, <<>>, <<>>),
        Resp("notok", FALSE, <<>>, <<>>),
        Resp("nocontent", FALSE, <<>>, <<>>),
        Resp("nomatch", FALSE, <<>>, <<"S","o","r","r","y",","," ","I"," ","c","a","n","n","o","t"," ","h","e","l","p"," ","w","i","t","h"," ","t","h","a","t",".">>),
        Resp("json", TRUE, <<StrItem(SeedReview(1)), StrItem(SeedReview(2)), StrItem(SeedReview(3)),
                             StrItem(SeedReview(4))>>, <<>>),
        Resp("json", TRUE, <<[isString |-> FALSE, s |-> <<>>], StrItem(SeedReview(1))>>, <<>>),
        Resp("text", FALSE, <<>>,
             <<"[", "\n", "\"">> \o SeedReview(5) \o <<"\"", "\n", "2", ".", " ">> \o SeedReview(6)
               \o <<"\n">> \o <<"o","o","p","s","]">>) }
  IN \/ \E req \in BatchRequests : BatchGenerateReviews(req)
     \/ \E i \in DOMAIN inflight, resp \in BatchResponses : BatchFetchSettles(i, resp)

SpecBatch == InitBatch /\ [][NextBatch]_vars

\* =========================================================================
\* The three hashReview functions on their own (unnamed/part_005 single and
\* batch variant, pages/ReviewLanding.tsx), applied to a review text and to
\* the same text written differently.
\* =========================================================================
LandingHashPrefixLen == 50

\* ReviewLanding.tsx hashReview: review.toLowerCase().trim().slice(0, 50)
HashReviewLanding(review) == Take(Trim(ToLowerCase(review)), LandingHashPrefixLen)

\* hashReview(review), hashReview(other) and hashReview(hashReview(review)),
\* other being review in upper case ("case"), between blanks ("pad"), or with
\* a dash and a blank put after its first character ("punct")
ApplyHashReview(variant, review, edit) ==
  LET ToUpperChar(c) == IF \E i \in DOMAIN LowerCase : LowerCase[i] = c
                        THEN UpperCase[CHOOSE i \in DOMAIN LowerCase : LowerCase[i] = c]
                        ELSE c
      other == IF edit = "case" THEN [i \in DOMAIN review |-> ToUpperChar(review[i])]
               ELSE IF edit = "pad" THEN <<" ", " ">> \o review \o <<" ">>
               ELSE <<review[1], "-", " ">> \o Tail(review)
      Hash(s) == IF variant = "single" THEN HashReview(s)
                 ELSE IF variant = "batch" THEN HashReviewBatch(s)
                 ELSE HashReviewLanding(s)
  IN /\ done' = Settled([variant |-> variant, review |-> review, other |-> other], "hashed",
                        <<Hash(review), Hash(other), Hash(Hash(review))>>, 0, 0)
     /\ UNCHANGED <<apiKey, ncalls, LimitedOnly, OthersOnly>>

NextHash ==
  \E variant \in {"single", "batch", "landing"},
     review \in Range(RotatingFallbackReviews[KeyAutomotive])
                  \cup {r \o <<" ">> \o r : r \in Range(RotatingFallbackReviews[KeyAutomotive])},
     edit \in {"case", "pad", "punct"} : ApplyHashReview(variant, review, edit)

SpecHash == InitCache /\ [][NextHash]_vars

\* ------------------------------------------------------------------ claims
\* C2: for every request with count >= 1 the list generateReviews resolves
\* with has at least one element and every element is a non-empty string.
C2_AtLeastOneUsableString ==
  (done.path # "none" /\ OrDefault(done.req.numberOfReviews, DefaultNumberOfReviews) >= 1)
    => /\ Len(done.reviews) >= 1
       /\ \A i \in DOMAIN done.reviews : done.reviews[i].isString /\ Len(done.reviews[i].s) > 0

\* C3: on an enabled service a call that follows at least the ceiling of
\* calls made within the same minute returns fallback content without an
\* upstream call, whatever those earlier calls produced.
C3_CeilingPlusOneIsFallback ==
  (IsEnabled /\ lastStart.path # "none" /\ lastStart.prior >= MaxRequestsPerMinute)
    => lastStart.path = "ratelimited"

\* C4: every call that attempted the upstream call added exactly one
\* timestamp to the rate limiter, whether the upstream call succeeded or not.
C4_AttemptRecorded == (done.path \in {"live", "error"} /\ done.fetches > 0) => done.recorded = 1

\* C5: canMakeRequest first discards every timestamp not newer than now - 1 h,
\* then returns false iff the remaining timestamps newer than now - 60 s number
\* at least maxRequestsPerMinute or the remaining timestamps number at least
\* maxRequestsPerHour.
C5_Discarded(old, new, t) ==
  \E m \in 0..Len(old) :
    /\ new = SubSeq(old, m + 1, Len(old))
    /\ \A i \in 1..m : old[i] <= t - 3600000
    /\ \A i \in (m + 1)..Len(old) : old[i] > t - 3600000
C5_InLastMinute(ts, t) == Cardinality({i \in DOMAIN ts : ts[i] > t - 60000})
C5_CanMakeRequest ==
  [][(IsEnabled /\ ncalls' = ncalls + 1) =>
       /\ C5_Discarded(requestTimestamps, requestTimestamps', now)
       /\ (lastStart'.path = "ratelimited") <=>
            (\/ C5_InLastMinute(requestTimestamps', now) >= MaxRequestsPerMinute
             \/ Len(requestTimestamps') >= MaxRequestsPerHour)]_vars
\* the gate closed by the hour ceiling alone, after old timestamps were discarded
C5_Witness ==
  /\ lastStart.path = "ratelimited"
  /\ C5_InLastMinute(requestTimestamps, now) < MaxRequestsPerMinute
  /\ Len(requestTimestamps) >= MaxRequestsPerHour

\* C8: two consecutive fallback results for one business key never start with
\* the same string when the pool has more than one entry.
C8_NoBackToBackFallback ==
  \A k \in BusinessKeys :
    (Len(lastFb[k]) = 2 /\ Len(FALLBACK_REVIEWS) > 1) => lastFb[k][1] # lastFb[k][2]

\* C6: with no credential configured, generateReviews for a request with
\* count = n makes no upstream call and returns exactly n non-empty strings,
\* all drawn from the fallback pool of the request's category (the default
\* pool when the category has none), for every n not larger than that pool.
C6_FallbackCountWithoutCredential ==
  (/\ done.path = "nokey"
   /\ done.req.numberOfReviews # <<>>
   /\ done.req.numberOfReviews[1] <= Len(RotatingPool(done.req.businessCategory)))
    => /\ done.fetches = 0
       /\ Len(done.reviews) = done.req.numberOfReviews[1]
       /\ \A i \in DOMAIN done.reviews :
            /\ done.reviews[i].isString
            /\ Len(done.reviews[i].s) > 0
            /\ done.reviews[i].s \in Range(RotatingPool(done.req.businessCategory))

\* C9: a suggestion returned to the caller for a business key never has a
\* fingerprint already recorded for that key, unless every attempt of the
\* retry budget was used up in that call.
C9_NoRepeatBeforeBudgetUsedUp ==
  (done.path \in {"live", "thrown", "exhausted"} /\ done.wasRecorded)
    => done.fetches = DedupMaxRetries

\* C10: if every attempt within the retry budget of one call produces a
\* candidate that is a duplicate for the business key, the call returns the
\* last generated candidate rather than any other text.
C10_LastCandidateReturned ==
  (done.path = "exhausted" /\ done.allDup)
    => done.reviews = StrItems(done.candidate)

\* C1: for every request and every upstream outcome the promise returned by
\* generateReviews / generateAIReviews resolves with a list and never
\* rejects.
C1_NeverRejects == done.rejected = FALSE

\* C7: fallback selection for a category key that has no pool of its own uses
\* the default pool and returns exactly `count` strings of it for every count
\* with 1 <= count <= default pool size, whatever list of reviews to exclude
\* is passed along.
C7_DefaultPoolFallback ==
  (/\ done.path \in {"nokey", "fallback"}
   /\ done.req.category \notin DOMAIN FALLBACK_REVIEWS_BY_CATEGORY
   /\ FnCount(done.req) >= 1
   /\ FnCount(done.req) <= Len(FALLBACK_REVIEWS_BY_CATEGORY[KeyProfessionalServices]))
    => /\ Len(done.reviews) = FnCount(done.req)
       /\ \A i \in DOMAIN done.reviews :
            done.reviews[i].s \in Range(FALLBACK_REVIEWS_BY_CATEGORY[KeyProfessionalServices])

\* C11: in every reachable state the set of fingerprints held for a business
\* key has at most 20 entries, and an insertion that would exceed the bound
\* removes the entry inserted earliest, never a more recent one.
C11_BoundedFifo ==
  [][\A businessKey \in CacheKeys :
       LET Held(c) == IF businessKey \in DOMAIN c THEN c[businessKey] ELSE <<>>
           Fifo(old, new) == \/ new = old
                             \/ \E h \in Range(new) : new = Append(old, h)
                             \/ \E h \in Range(new) : new = Tail(Append(old, h))
       IN /\ Len(Held(recentReviewsCache')) <= 20
          /\ Len(Held(generatedReviewsCache')) <= 20
          /\ Fifo(Held(recentReviewsCache), Held(recentReviewsCache'))
          /\ Fifo(Held(generatedReviewsCache), Held(generatedReviewsCache'))]_vars

\* C12: a duplicate check of s for key k made after s was recorded for k
\* answers true as long as fewer than 20 further distinct fingerprints were
\* recorded for k in between, and a check of a text whose fingerprint was
\* never recorded for k answers false.
C12_RoundTrip ==
  [][LET check == lastCheck'
         hash == IF check.cache = "recent" THEN HashReviewOf[check.review]
                 ELSE HashReviewBatchOf[check.review]
         log == LogOf(recordLog, check.cache, check.businessKey)
     IN /\ hash \notin Range(log) => check.result = FALSE
        /\ \A p \in DOMAIN log :
             (/\ log[p] = hash
              /\ Cardinality({log[q] : q \in (p + 1)..Len(log)} \ {hash}) < 20)
               => check.result = TRUE]_vars

C12_Witness ==
  /\ lastCheck.cache = "recent"
  /\ lastCheck.review = SeedReview(1)
  /\ lastCheck.result = TRUE
  /\ Len(LogOf(recordLog, "recent", lastCheck.businessKey)) = 20

\* C13: the duplicate check is a pure lookup: evaluating it leaves the dedup
\* cache unchanged (no key created, no fingerprint inserted, nothing
\* evicted); only recording changes the cache.
C13_PureLookup ==
  [][/\ lastCheck'.cache = "recent" => recentReviewsCache' = recentReviewsCache
     /\ (lastCheck'.cache = "generated" /\ lastCheck'.result)
          => generatedReviewsCache' = generatedReviewsCache]_vars

\* C14: a single generateReviews call issues at most maxRetries upstream
\* requests (3 in the dedup variant), ends with the accepted candidate as
\* soon as one is accepted, and returns the fallback only after the budget
\* is used up.
C14_RetryBudget ==
  (done.path \in {"live", "thrown", "exhausted"})
    => /\ done.fetches >= 1
       /\ done.fetches <= DedupMaxRetries
       /\ done.path = "live" => done.reviews = StrItems(done.candidate)
       /\ done.path \in {"thrown", "exhausted"} => done.fetches = DedupMaxRetries

C16_EventuallyResolves ==
  \A req \in Requests : (pending[req] > 0) ~> (pending[req] = 0)

\* C17 (as stated): after a generateReviews call that obtained reviews from
\* the upstream API, any later call with the same cache key made within
\* cacheDurationMs, while the rate gate is open, returns exactly the same
\* list, makes no upstream call and adds no timestamp; the cache size grows
\* by one on the call that went upstream (from its start to its return, for
\* a call that overlaps no other upstream call) and not on the later one.
C17_CachedWithinDuration ==
  [][/\ (ncalls' = ncalls + 1 /\ IsEnabled /\ lastStart'.path # "ratelimited")
          => LET key == GenerateCacheKey(lastStart'.req)
             IN (key \in DOMAIN lastLive /\ now - lastLive[key].at <= 3600000)
                  => /\ done' = Settled(lastStart'.req, "cache", lastLive[key].reviews, 0, 0)
                     /\ pending' = pending
                     /\ Len(requestTimestamps') <= Len(requestTimestamps)
                     /\ Cardinality(DOMAIN cache') = Cardinality(DOMAIN cache)
     /\ (lastLive' # lastLive /\ NumPending = 1 /\ lastStart.path = "upstream")
          => Cardinality(DOMAIN cache') = lastStart.cacheSize + 1]_vars

\* C17 (amended): a call made while the rate gate is open and the cache
\* holds an entry for its key aged at most cacheDurationMs returns exactly
\* the list of that entry, which is the latest upstream result for the key,
\* makes no upstream call, adds no timestamp and leaves the cache size as it
\* is; storing an upstream result adds one entry when the key has none and
\* replaces the entry otherwise.
C17_CachedWhileStored ==
  [][/\ (ncalls' = ncalls + 1 /\ IsEnabled /\ lastStart'.path # "ratelimited")
          => LET key == GenerateCacheKey(lastStart'.req)
             IN (key \in DOMAIN cache /\ now - cache[key].timestamp <= 3600000)
                  => /\ key \in DOMAIN lastLive
                     /\ cache[key].timestamp = lastLive[key].at
                     /\ done' = Settled(lastStart'.req, "cache", lastLive[key].reviews, 0, 0)
                     /\ pending' = pending
                     /\ Len(requestTimestamps') <= Len(requestTimestamps)
                     /\ Cardinality(DOMAIN cache') = Cardinality(DOMAIN cache)
     /\ (lastLive' # lastLive)
          => /\ done'.path = "live"
             /\ LET key == GenerateCacheKey(done'.req)
                IN /\ cache'[key] = [data |-> [reviews |-> done'.reviews], timestamp |-> now]
                   /\ Cardinality(DOMAIN cache') =
                        Cardinality(DOMAIN cache) + (IF key \in DOMAIN cache THEN 0 ELSE 1)]_vars

C17_Witness ==
  /\ lastStart.path = "cache"
  /\ done.path = "cache"
  /\ GenerateCacheKey(done.req) \in DOMAIN lastLive
  /\ done.reviews = lastLive[GenerateCacheKey(done.req)].reviews
  /\ now - lastLive[GenerateCacheKey(done.req)].at = 3600000

\* C18: getStatus().rateLimitStatus is always {perMinute: max(0,
\* maxRequestsPerMinute - r60), perHour: max(0, maxRequestsPerHour - r3600)},
\* r60 and r3600 being the numbers of recorded requests newer than 60 s and
\* 1 h; neither value is ever negative; before any call the service reports
\* its two ceilings (10 and 100 under the default configuration) and
\* cacheSize 0; and canMakeRequest returns true exactly when both reported
\* values are greater than 0.
C18_RemainingRequests ==
  LET r60 == Cardinality({i \in DOMAIN requestTimestamps : now - requestTimestamps[i] < 60000})
      r3600 == Cardinality({i \in DOMAIN requestTimestamps : now - requestTimestamps[i] < 3600000})
      Max0(x) == IF x > 0 THEN x ELSE 0
      reported == GetStatus.rateLimitStatus
  IN /\ reported = [perMinute |-> Max0(MaxRequestsPerMinute - r60),
                    perHour |-> Max0(MaxRequestsPerHour - r3600)]
     /\ reported.perMinute >= 0 /\ reported.perHour >= 0
     /\ (ncalls = 0) =>
          /\ reported = [perMinute |-> MaxRequestsPerMinute, perHour |-> MaxRequestsPerHour]
          /\ GetStatus.cacheSize = 0
          /\ GetRemainingRequests(DEFAULT_RATE_LIMIT_CONFIG, requestTimestamps, now)
               = [perMinute |-> 10, perHour |-> 100]
     /\ CanMakeRequest(requestTimestamps, now) <=> (reported.perMinute > 0 /\ reported.perHour > 0)
\* a request recorded a minute or more ago no longer counts against the
\* minute ceiling and still counts against the hour ceiling
C18_Witness ==
  /\ \E i \in DOMAIN requestTimestamps :
       now - requestTimestamps[i] >= OneMinute /\ now - requestTimestamps[i] < OneHour
  /\ GetStatus.rateLimitStatus = [perMinute |-> MaxRequestsPerMinute, perHour |-> MaxRequestsPerHour - 1]

\* C19: fallback-rotation state is isolated per business: for two requests
\* whose (businessName, businessCategory) pairs differ, a call of one that
\* advances the fallback index never changes the next fallback text of the
\* other.
C19_IsolatedPerBusiness ==
  [][\A r1, r2 \in RotRequests :
       (/\ <<r1.businessName, r1.businessCategory>> # <<r2.businessName, r2.businessCategory>>
        /\ done' # done
        /\ done'.req = r1
        /\ fallbackIndex' # fallbackIndex)
         => GetRotatingFallback(fallbackIndex', r2.businessCategory, BusinessKey(r2))
              = GetRotatingFallback(fallbackIndex, r2.businessCategory, BusinessKey(r2))]_vars

\* C20: a request that leaves numberOfReviews unset behaves as the same
\* request with numberOfReviews = 3: the number of reviews asked of the
\* upstream is 3, and so is the number of fallback reviews returned.
C20_UnsetOptionsAreDefaults ==
  /\ \A i \in DOMAIN inflight :
       inflight[i].req.numberOfReviews = <<>> => inflight[i].asked = 3
  /\ (done.path \in {"nokey", "thrown", "notok", "nocontent", "empty"} /\ done.req.numberOfReviews = <<>>)
       => Len(done.reviews) = 3

\* C21: in the retry loop a failed attempt N below the retry budget is always
\* followed by attempt N + 1: a call that leaves the loop before its last
\* attempt does so with an accepted review, never with the fallback.
C21_FailureIsRetried ==
  [][\A i \in DOMAIN inflight :
       (inflight[i].attempt + 1 < DedupMaxRetries /\ inflight' = RemoveAt(inflight, i))
         => done'.path = "live"]_vars

\* C22: whatever calls overlap, the rate limiter never holds more than
\* maxRequestsPerMinute timestamps from the trailing minute, nor more than
\* maxRequestsPerHour from the trailing hour.
C22_CeilingsUnderOverlap ==
  /\ Cardinality({i \in DOMAIN requestTimestamps : requestTimestamps[i] > now - OneMinute})
       <= MaxRequestsPerMinute
  /\ Cardinality({i \in DOMAIN requestTimestamps : requestTimestamps[i] > now - OneHour})
       <= MaxRequestsPerHour

\* C23: for calls with the same cache key at most one upstream request is
\* made while the entry is unexpired, the case where the second call starts
\* before the first call's answer has arrived included: a call goes upstream
\* only when no call for its key is waiting for the upstream and the cache
\* holds no unexpired entry for the key.
C23_NoDuplicateUpstreamCall ==
  [][\A req \in Requests :
       pending'[req] > pending[req]
         => /\ pending[req] = 0
            /\ ~(/\ GenerateCacheKey(req) \in DOMAIN cache
                 /\ now - cache[GenerateCacheKey(req)].timestamp <= CacheDurationMs)]_vars

\* C24: two texts that differ only in letter case, in leading or trailing
\* whitespace, or in non-alphanumeric characters have the same fingerprint,
\* and hashReview(hashReview(s)) = hashReview(s).
C24_FingerprintNormalises ==
  done.path = "hashed" => (done.reviews[1] = done.reviews[2] /\ done.reviews[3] = done.reviews[1])

\* C25: no review returned by the deduplicating generateAIReviews has a
\* similarity above 0.85 with an entry of excludeReviews, on any return path.
C25_NothingSimilarToExcluded ==
  (done.path \in {"nokey", "fallback", "live"} /\ done.req.variant = "009")
    => \A i \in DOMAIN done.reviews, k \in DOMAIN done.req.excludeReviews :
         ~TooSimilarTo[done.reviews[i].s, done.req.excludeReviews[k]]

\* C26 (as stated): the gates are evaluated in the order disabled, rate limit,
\* cache, upstream: a call made while the rate gate is closed returns the
\* static fallback list even when an unexpired cache entry exists for its
\* key, and it changes neither the cache nor the rate limiter's recorded
\* requests.
C26_ClosedGateTouchesNothing ==
  [][\A req \in Requests :
       LET inMinute == Cardinality({i \in DOMAIN requestTimestamps : now - requestTimestamps[i] < 60000})
           inHour == Cardinality({i \in DOMAIN requestTimestamps : now - requestTimestamps[i] < 3600000})
           closed == inMinute >= MaxRequestsPerMinute \/ inHour >= MaxRequestsPerHour
       IN (ncalls' = ncalls + 1 /\ lastStart'.req = req /\ apiKey /\ closed)
            => /\ done' = Settled(req, "ratelimited",
                                  StrItems(Take(FALLBACK_REVIEWS, OrDefault(req.numberOfReviews, 3))), 0, 0)
               /\ pending' = pending
               /\ cache' = cache
               /\ requestTimestamps' = requestTimestamps]_vars

\* C26 (amended): as above, but the rate limiter's recorded requests change
\* in one way: those older than one hour are discarded.
C26_ClosedGateOnlyDiscardsOld ==
  [][\A req \in Requests :
       LET inMinute == Cardinality({i \in DOMAIN requestTimestamps : now - requestTimestamps[i] < 60000})
           inHour == Cardinality({i \in DOMAIN requestTimestamps : now - requestTimestamps[i] < 3600000})
           closed == inMinute >= MaxRequestsPerMinute \/ inHour >= MaxRequestsPerHour
       IN (ncalls' = ncalls + 1 /\ lastStart'.req = req /\ apiKey /\ closed)
            => /\ done' = Settled(req, "ratelimited",
                                  StrItems(Take(FALLBACK_REVIEWS, OrDefault(req.numberOfReviews, 3))), 0, 0)
               /\ pending' = pending
               /\ cache' = cache
               /\ requestTimestamps' = SelectSeq(requestTimestamps, LAMBDA ts : now - ts < 3600000)]_vars
\* a call was turned away at the rate gate while the cache held an unexpired
\* entry for its key
C26_Witness ==
  /\ lastStart.path = "ratelimited"
  /\ done.path = "ratelimited"
  /\ GenerateCacheKey(done.req) \in DOMAIN cache
  /\ now - cache[GenerateCacheKey(done.req)].timestamp <= 3600000

\* C27 (as stated): fallback content is never cached: a call that ends on the
\* fallback path (disabled, rate-limited, or upstream failure) leaves the
\* request cache exactly as it was before the call, and every list returned
\* from the cache is a list an upstream call produced for the same cache key.
\* For the call that fails upstream this is checked when no other call was
\* waiting or started while it ran: neither its first part (up to the await)
\* nor its second part has changed the cache.
C27_FallbackLeavesCache ==
  [][/\ (ncalls' = ncalls + 1 /\ lastStart'.path \in {"disabled", "ratelimited"}) => cache' = cache
     /\ (done' # done /\ done'.path = "error" /\ NumPending = 1 /\ lastStart.path = "upstream"
           /\ lastStart.alone)
          => (lastStart.after = lastStart.cache /\ cache' = cache)
     /\ (done' # done /\ done'.path = "cache")
          => /\ GenerateCacheKey(done'.req) \in DOMAIN lastLive
             /\ done'.reviews = lastLive[GenerateCacheKey(done'.req)].reviews]_vars

\* C27 (amended): as above, except that a call that got as far as the cache
\* lookup has deleted an expired entry of its own key; no step of a call that
\* ends on the fallback path adds or replaces an entry, and every entry holds
\* a list an upstream call produced for its key.
C27_FallbackNeverCached ==
  [][/\ (ncalls' = ncalls + 1 /\ lastStart'.path \in {"disabled", "ratelimited"}) => cache' = cache
     /\ (ncalls' = ncalls + 1 /\ lastStart'.path = "upstream")
          => LET key == GenerateCacheKey(lastStart'.req)
                 expired == {k \in DOMAIN cache : k = key /\ now - cache[k].timestamp > 3600000}
             IN cache' = [k \in DOMAIN cache \ expired |-> cache[k]]
     /\ (done' # done /\ done'.path = "error") => cache' = cache
     /\ (done' # done /\ done'.path = "cache")
          => /\ GenerateCacheKey(done'.req) \in DOMAIN lastLive
             /\ done'.reviews = lastLive[GenerateCacheKey(done'.req)].reviews
     /\ \A k \in DOMAIN cache' :
          k \in DOMAIN lastLive' /\ cache'[k].data.reviews = lastLive'[k].reviews]_vars
\* a call found an expired entry for its key, went upstream, and ended on the
\* fallback path
C27_Witness ==
  /\ done.path = "error"
  /\ lastStart.path = "upstream"
  /\ lastStart.req = done.req
  /\ GenerateCacheKey(done.req) \in DOMAIN lastStart.cache
  /\ cache = <<>>

\* C28: the request cache never serves one request the reviews generated for
\* a different request: a list returned from the cache was produced by an
\* upstream call made for a request with the same businessName,
\* businessCategory, numberOfReviews, tone and language.
C28_CacheServesOwnRequest ==
  [][(done' # done /\ done'.path = "cache")
       => lastLive[GenerateCacheKey(done'.req)].req = done'.req]_vars

\* C29: a call that passes the rate gate gets the stored response if and only
\* if its age is at most cacheDurationMs (an age exactly equal still hits);
\* once the age exceeds cacheDurationMs the entry is deleted and the call
\* makes a fresh upstream call; clearCache empties the cache without touching
\* the rate limiter.
C29_ExpiryBoundary ==
  [][/\ \A req \in Requests :
          LET key == GenerateCacheKey(req)
              inMinute == Cardinality({i \in DOMAIN requestTimestamps : now - requestTimestamps[i] < 60000})
              inHour == Cardinality({i \in DOMAIN requestTimestamps : now - requestTimestamps[i] < 3600000})
              open == apiKey /\ inMinute < MaxRequestsPerMinute /\ inHour < MaxRequestsPerHour
          IN (ncalls' = ncalls + 1 /\ lastStart'.req = req /\ open /\ key \in DOMAIN cache)
               => IF now - cache[key].timestamp <= 3600000
                  THEN /\ done' = Settled(req, "cache", cache[key].data.reviews, 0, 0)
                       /\ cache' = cache
                       /\ pending' = pending
                  ELSE /\ key \notin DOMAIN cache'
                       /\ pending'[req] = pending[req] + 1
                       /\ done' = done
     /\ (ncalls' = ncalls /\ pending' = pending /\ cache' # cache)
          => (cache' = <<>> /\ requestTimestamps' = requestTimestamps)]_vars
\* a call found an entry older than cacheDurationMs, deleted it and went
\* upstream
C29_Witness ==
  /\ lastStart.path = "upstream"
  /\ GenerateCacheKey(lastStart.req) \in DOMAIN lastStart.cache
  /\ GenerateCacheKey(lastStart.req) \notin DOMAIN lastStart.after
  /\ pending[lastStart.req] > 0

\* C30: rate limiting is never permanent.  Whenever the oldest of the last
\* maxRequestsPerMinute recorded requests is more than 60 s old and fewer than
\* maxRequestsPerHour recorded requests lie in the trailing hour, a
\* generateReviews call of an enabled service is not turned away: it reaches
\* the cache or the upstream path.  And a gate closed by the minute ceiling
\* alone, with no call waiting that could record a further request and the
\* clock still running, is eventually followed by a state in which both
\* ceilings admit a request.
C30_InTrailing(ts, t, span) == Cardinality({i \in DOMAIN ts : ts[i] > t - span})
C30_MinuteWindowFree(ts, t) ==
  \/ Len(ts) < MaxRequestsPerMinute
  \/ t - ts[Len(ts) - MaxRequestsPerMinute + 1] > 60000
C30_Admits(ts, t) ==
  /\ C30_InTrailing(ts, t, 60000) < MaxRequestsPerMinute
  /\ C30_InTrailing(ts, t, 3600000) < MaxRequestsPerHour
C30_NeverPermanent ==
  /\ [][(/\ apiKey
         /\ ncalls' = ncalls + 1
         /\ C30_MinuteWindowFree(requestTimestamps, now)
         /\ C30_InTrailing(requestTimestamps, now, 3600000) < MaxRequestsPerHour)
          => lastStart'.path \in {"cache", "upstream"}]_vars
  /\ (/\ ~C30_Admits(requestTimestamps, now)
      /\ C30_InTrailing(requestTimestamps, now, 3600000) < MaxRequestsPerHour
      /\ \A req \in Requests : pending[req] = 0
      /\ ticks < MaxTicks)
       ~> C30_Admits(requestTimestamps, now)
\* a call was turned away, and a later call passed the gate with the request
\* that had closed it still recorded
C30_Witness ==
  /\ done.path = "ratelimited"
  /\ lastStart.path = "upstream"
  /\ Len(requestTimestamps) >= MaxRequestsPerMinute
  /\ now - requestTimestamps[Len(requestTimestamps)] > 60000
  /\ C30_InTrailing(requestTimestamps, now, 3600000) >= 1

====
